---- MODULE Spec2Model ----
(***************************************************************************)
(* Model of the easyblocks of easybuild-easyblocks: each easyblock is an   *)
(* object whose steps (configure_step, install_step, ...) are actions.     *)
(* Everything a step does to the outside world (shell commands with their  *)
(* exit codes, files written, symlinks made) is appended to `log`, and the *)
(* exception that ended a step, if any, is kept in `raised`.               *)
(***************************************************************************)
EXTENDS Integers, Sequences, FiniteSets, TLC

VARIABLES
    log,            \* what the steps did so far, in order
    raised,         \* the exception that ended the last step ([type, msg])
    \* ---- Rpm (generic/rpm.py)
    rpm_pc,         \* position in the life cycle of the Rpm easyblock
    rebuild_rpm,    \* self.rebuild_rpm
    src,            \* self.src: list of [name, path]
    oldsrc,         \* self.oldsrc (<<>> while unset)
    rpm_cfg,        \* self.cfg: force, preinstall, postinstall, makesymlinks
    rpm_sys,        \* the host: which('rpm'), rpm's version output, ~/.rpmmacros, ...
    builddir,       \* RPM files found by glob(<builddir>/*/*.rpm)
    \* ---- IntelBase (generic/intelbase.py)
    intel_pc,                   \* position in the life cycle of the IntelBase easyblock
    license_file,               \* self.license_file
    license_env_var,            \* self.license_env_var
    requires_runtime_license,   \* self.requires_runtime_license
    serial_number,              \* self.serial_number
    license_activation,         \* self.cfg['license_activation']
    install_components,         \* self.install_components
    intel_cfg,                  \* the other easyconfig parameters, version and sources
    intel_sys,                  \* the host: license environment, valid licenses, EULA, mediaconfig.xml
    environ,                    \* os.environ (the variables the steps set)
    silent_cfg,                 \* contents of silent.cfg (its lines)
    fs,                         \* $HOME/intel, the local cache directory and its contents
    \* ---- two IntelBase installs of one user at the same time
    par_pc,         \* position of each install in its life cycle
    par_node,       \* the node each install runs on
    par_fs,         \* $HOME/intel and the local cache directory of each node
    \* ---- EB_Maple (m/maple.py)
    maple_pc,       \* position in the life cycle of the EB_Maple easyblock
    maple_builddir, \* the files of self.builddir
    maple_cfg,      \* self.cfg: license_server, license_server_port
    \* ---- EB_EasyBuildMeta (e/easybuildmeta.py)
    eb_pc,                  \* position in the life cycle of the EB_EasyBuildMeta easyblock
    initial_environ,        \* self.initial_environ
    real_initial_environ,   \* self.real_initial_environ
    os_environ,             \* os.environ
    eb_sys,                 \* the installation: easy-install.pth, setup tool, egg directories
    \* ---- EB_NCL (n/ncl.py)
    ncl_pc,         \* position in the life cycle of the EB_NCL easyblock
    ncl_sys,        \* the host: directories, generated Makefile, loaded dependencies
    \* ---- EB_Hadoop (h/hadoop.py)
    hadoop_pc,      \* position in the life cycle of the EB_Hadoop easyblock
    hadoop_cfg,     \* self.cfg: build_native_libs, extra_native_libs, parallel
    hadoop_sys,     \* the host: loaded modules, files of the libraries, output of checknative
    \* ---- EB_WRF (w/wrf.py)
    wrf_pc,         \* position in the life cycle of the EB_WRF easyblock
    wrf_cfg,        \* self.cfg and build options: runtest, buildtype, mpi_tests, dry_run, compiler
    wrf_sys,        \* the host: the test directory and what each test case does
    \* ---- EB_Rmpi (r/rmpi.py)
    rmpi_pc,        \* position in the life cycle of the EB_Rmpi extension
    rmpi_cfg,       \* self.version and the toolchain
    configureargs,  \* self.configureargs
    \* ---- EB_EasyBuildMeta.install_step (e/easybuildmeta.py)
    ebm_pc,         \* position of the EasyBuild installation
    ebm_cfg,        \* version, sources and the listing of the build directory
    ebm_fs,         \* files written below the installation directory
    \* ---- EB_MPICH (m/mpich.py)
    mpich_pc,       \* position of the MPICH build
    mpich_cfg,      \* easyconfig: debug, version, keeppreviousinstall, configopts
    mpich_sys,      \* the host: the environment on entry, the exit code of configure
    mpich_environ,  \* os.environ
    \* ---- EB_MCR (m/mcr.py)
    mcr_pc,         \* position of the MCR installation
    mcr_cfg,        \* easyconfig: version
    mcr_sys,        \* the host: what the installer leaves in the installation directory
    mcr_subdir,     \* self.subdir
    mcr_calls,      \* the methods the framework has called after the installation
    \* ---- EB_MUMPS (m/mumps.py)
    mumps_pc,       \* position of the MUMPS build
    mumps_cfg,      \* easyconfig and toolchain: version, options, compiler, dependencies
    mumps_makefile, \* the template copied to Makefile.inc
    mumps_buildopts, \* what was added to 'buildopts'
    \* ---- EB_MXNet (m/mxnet.py)
    mxnet_pc,       \* position of the MXNet build
    mxnet_cfg,      \* the toolchain's definition, the version of imkl, NNPACK loaded or not
    mxnet_environ,  \* os.environ
    mxnet_buildopts \* what was added to 'buildopts'

rpmVars == <<rpm_pc, rebuild_rpm, src, oldsrc, rpm_cfg, rpm_sys, builddir>>
intelVars == <<intel_pc, license_file, license_env_var, requires_runtime_license, serial_number,
               license_activation, install_components, intel_cfg, intel_sys, environ, silent_cfg, fs>>
sharedVars == <<log, raised>>
parVars == <<par_pc, par_node, par_fs>>
mapleVars == <<maple_pc, maple_builddir, maple_cfg>>
ebVars == <<eb_pc, initial_environ, real_initial_environ, os_environ, eb_sys>>
nclVars == <<ncl_pc, ncl_sys>>
hadoopVars == <<hadoop_pc, hadoop_cfg, hadoop_sys>>
wrfVars == <<wrf_pc, wrf_cfg, wrf_sys>>
rmpiVars == <<rmpi_pc, rmpi_cfg, configureargs>>
ebmVars == <<ebm_pc, ebm_cfg, ebm_fs>>
mpichVars == <<mpich_pc, mpich_cfg, mpich_sys, mpich_environ>>
mcrVars == <<mcr_pc, mcr_cfg, mcr_sys, mcr_subdir, mcr_calls>>
mumpsVars == <<mumps_pc, mumps_cfg, mumps_makefile, mumps_buildopts>>
mxnetVars == <<mxnet_pc, mxnet_cfg, mxnet_environ, mxnet_buildopts>>
vars == <<sharedVars, rpmVars, intelVars, parVars, mapleVars, ebVars, nclVars, hadoopVars, wrfVars, rmpiVars, ebmVars, mpichVars, mcrVars, mumpsVars, mxnetVars>>
\* the state of the easyblocks other than the one a step belongs to
notRpm == <<intelVars, parVars, mapleVars, ebVars, nclVars, hadoopVars, wrfVars, rmpiVars, ebmVars, mpichVars, mcrVars, mumpsVars, mxnetVars>>
notIntel == <<rpmVars, parVars, mapleVars, ebVars, nclVars, hadoopVars, wrfVars, rmpiVars, ebmVars, mpichVars, mcrVars, mumpsVars, mxnetVars>>
notPar == <<rpmVars, intelVars, mapleVars, ebVars, nclVars, hadoopVars, wrfVars, rmpiVars, ebmVars, mpichVars, mcrVars, mumpsVars, mxnetVars>>
notMaple == <<rpmVars, intelVars, parVars, ebVars, nclVars, hadoopVars, wrfVars, rmpiVars, ebmVars, mpichVars, mcrVars, mumpsVars, mxnetVars>>
notEb == <<rpmVars, intelVars, parVars, mapleVars, nclVars, hadoopVars, wrfVars, rmpiVars, ebmVars, mpichVars, mcrVars, mumpsVars, mxnetVars>>
notNcl == <<rpmVars, intelVars, parVars, mapleVars, ebVars, hadoopVars, wrfVars, rmpiVars, ebmVars, mpichVars, mcrVars, mumpsVars, mxnetVars>>
notHadoop == <<rpmVars, intelVars, parVars, mapleVars, ebVars, nclVars, wrfVars, rmpiVars, ebmVars, mpichVars, mcrVars, mumpsVars, mxnetVars>>
notWrf == <<rpmVars, intelVars, parVars, mapleVars, ebVars, nclVars, hadoopVars, rmpiVars, ebmVars, mpichVars, mcrVars, mumpsVars, mxnetVars>>
notRmpi == <<rpmVars, intelVars, parVars, mapleVars, ebVars, nclVars, hadoopVars, wrfVars, ebmVars, mpichVars, mcrVars, mumpsVars, mxnetVars>>
notEbm == <<rpmVars, intelVars, parVars, mapleVars, ebVars, nclVars, hadoopVars, wrfVars, rmpiVars, mpichVars, mcrVars, mumpsVars, mxnetVars>>
notMpich == <<rpmVars, intelVars, parVars, mapleVars, ebVars, nclVars, hadoopVars, wrfVars, rmpiVars, ebmVars, mcrVars, mumpsVars, mxnetVars>>
notMcr == <<rpmVars, intelVars, parVars, mapleVars, ebVars, nclVars, hadoopVars, wrfVars, rmpiVars, ebmVars, mpichVars, mumpsVars, mxnetVars>>
notMumps == <<rpmVars, intelVars, parVars, mapleVars, ebVars, nclVars, hadoopVars, wrfVars, rmpiVars, ebmVars, mpichVars, mcrVars, mxnetVars>>
notMxnet == <<rpmVars, intelVars, parVars, mapleVars, ebVars, nclVars, hadoopVars, wrfVars, rmpiVars, ebmVars, mpichVars, mcrVars, mumpsVars>>

\* ------------------------------------------------------------------------
\* Bounds of the model
\* ------------------------------------------------------------------------
MaxSrc == 2
NumInstalls == 2
MaxSteps == 3
MaxCalls == 3

\* ------------------------------------------------------------------------
\* Exceptions and the framework's run_shell_cmd
\* ------------------------------------------------------------------------
NoError == [type |-> "None", msg |-> ""]
EasyBuildError(msg) == [type |-> "EasyBuildError", msg |-> msg]
PyError(type) == [type |-> type, msg |-> ""]

\* One entry of the log. `arg` is the file the action is about, `flags` the
\* options of a command, `exit` the exit code of a command (0 otherwise).
Event(op, what, arg, flags, exit) ==
    [op |-> op, what |-> what, arg |-> arg, flags |-> flags, exit |-> exit]
Cmd(what, arg, flags, exit) == Event("run_shell_cmd", what, arg, flags, exit)

ExitCodes == {0, 1}

\* run_shell_cmd(cmd) with the default fail_on_error=True raises the build
\* error when the command exits with a non-zero code.
CmdFailed == EasyBuildError("shell command failed")

\* The commands of `cs` issued one after another until one fails: failAt = 0
\* when all succeed, otherwise the failAt-th command exits with 1 and
\* nothing after it is run.
IssuedStrict(cs, failAt) ==
    IF failAt = 0 THEN [i \in 1..Len(cs) |-> [cs[i] EXCEPT !.exit = 0]]
    ELSE [i \in 1..failAt |-> [cs[i] EXCEPT !.exit = IF i = failAt THEN 1 ELSE 0]]
IssuedAll(cs, failAt) ==
    [i \in 1..Len(cs) |-> [cs[i] EXCEPT !.exit = IF i = failAt THEN 1 ELSE 0]]
Issued(cs, failAt) == IssuedStrict(cs, failAt)

\* ------------------------------------------------------------------------
\* LooseVersion: a version is its list of numeric components; comparison is
\* Python's list comparison (lexicographic, a proper prefix is smaller).
\* ------------------------------------------------------------------------
RECURSIVE LooseVersionLess(_, _)
LooseVersionLess(a, b) ==
    IF Len(b) = 0 THEN FALSE
    ELSE IF Len(a) = 0 THEN TRUE
    ELSE IF a[1] # b[1] THEN a[1] < b[1]
    ELSE LooseVersionLess(Tail(a), Tail(b))

LooseVersionGE(a, b) == ~LooseVersionLess(a, b)

\* ------------------------------------------------------------------------
\* Helpers on sequences and sets
\* ------------------------------------------------------------------------
Range(s) == {s[i] : i \in 1..Len(s)}
IsInjective(s) == \A i, j \in 1..Len(s) : s[i] = s[j] => i = j
\* every list without repetitions of elements of S, up to length n
InjSeqs(S, n) == UNION {{s \in [1..k -> S] : IsInjective(s)} : k \in 0..n}
\* every order in which the elements of S can be listed
PermsOf(S) == {s \in [1..Cardinality(S) -> S] : IsInjective(s)}

\* ========================================================================
\* Rpm (generic/rpm.py)
\* ========================================================================
INSTALLDIR == "<installdir>"
RpmName(i) == "pkg" \o ToString(i) \o ".rpm"
\* an entry of self.src as fetched by the framework
SrcEntry(i) == [name |-> RpmName(i), path |-> "<sourcepath>/" \o RpmName(i)]
\* an entry of self.src as rebuild_rpms makes it from a file of <builddir>/*/
RebuiltEntry(name) == [name |-> name, path |-> "<builddir>/x86_64/" \o name]

\* rpm's answer to 'rpm --version': the version after "RPM version ", or
\* NoVersion when the output does not match rpmver_re
NoVersion == <<>>
RpmVersionOutputs ==
    {NoVersion, <<3>>, <<4, 7, 9>>, <<4, 8>>, <<4, 8, 0>>, <<4, 8, 0, 1>>, <<4, 11, 3>>, <<5>>}

\* makesymlinks patterns and what glob.glob returns for them once the RPMs
\* are installed (in glob's order)
SymlinkGlob(pattern) ==
    CASE pattern = "usr/none*" -> <<>>
      [] pattern = "usr/lib" -> <<"usr/lib">>
      [] pattern = "usr/lib*" -> <<"usr/lib64", "usr/lib">>
      [] OTHER -> <<>>
SymlinkPatterns == {"usr/none*", "usr/lib", "usr/lib*"}
MakeSymlinks == {<<>>, <<"usr/lib">>, <<"usr/none*", "usr/lib*">>, <<"usr/lib*", "usr/none*">>}

RpmCfgs ==
    [force : BOOLEAN, preinstall : BOOLEAN, postinstall : BOOLEAN,
     makesymlinks : MakeSymlinks, sources : InjSeqs(1..MaxSrc, MaxSrc)]
RpmHosts ==
    [which_rpm : BOOLEAN, which_rpmrebuild : BOOLEAN, rpmmacros : BOOLEAN,
     version_output : RpmVersionOutputs]

\* Rpm.__init__ (and the framework's fetch of the sources into self.src)
RpmInit ==
    /\ rpm_pc = "init"
    /\ rebuild_rpm = FALSE
    /\ rpm_cfg \in RpmCfgs
    /\ rpm_sys \in RpmHosts
    /\ src = [i \in 1..Len(rpm_cfg.sources) |-> SrcEntry(rpm_cfg.sources[i])]
    /\ oldsrc = <<>>
    /\ builddir = {}

RpmIdle ==
    /\ rpm_pc = "unused"
    /\ rebuild_rpm = FALSE
    /\ rpm_cfg = [force |-> FALSE, preinstall |-> FALSE, postinstall |-> FALSE,
                  makesymlinks |-> <<>>, sources |-> <<>>]
    /\ rpm_sys = [which_rpm |-> TRUE, which_rpmrebuild |-> TRUE, rpmmacros |-> FALSE,
                  version_output |-> NoVersion]
    /\ src = <<>>
    /\ oldsrc = <<>>
    /\ builddir = {}

\* LooseVersion(ver) >= LooseVersion('4.8.0')
NeedsRebuild_Strict(ver) == LooseVersionLess(<<4, 8, 0>>, ver)
NeedsRebuild(ver) == LooseVersionGE(ver, <<4, 8, 0>>)

\* the rpmrebuild command of rebuild_rpm(rpm_path, targetdir)
RebuildCmd(rpm) ==
    Cmd("rpmrebuild", rpm.path,
        {"-v", "--change-spec-whole", "--notest-install", "-p", "-d <builddir>"}, 0)

\* rebuild_rpm for every entry of self.src, then the new source list.
\* Result: [raised, log, oldsrc, src, builddir].
RebuildRpms(host, srcs, old, files, failAt, order) ==
    IF Len(srcs) > 0 /\ ~host.which_rpmrebuild
    THEN [raised |-> EasyBuildError("Command 'rpmrebuild' is required but not available."),
          log |-> <<>>, oldsrc |-> old, src |-> srcs, builddir |-> files]
    ELSE IF Len(srcs) > 0 /\ host.rpmmacros
    THEN [raised |-> EasyBuildError("rpmmacros file found which will override any other settings"),
          log |-> <<>>, oldsrc |-> old, src |-> srcs, builddir |-> files]
    ELSE LET issued == Issued([i \in 1..Len(srcs) |-> RebuildCmd(srcs[i])], failAt)
             built == files \cup {srcs[i].name : i \in {j \in 1..Len(issued) : issued[j].exit = 0}}
         IN  IF failAt # 0
             THEN [raised |-> CmdFailed, log |-> issued, oldsrc |-> old, src |-> srcs,
                   builddir |-> built]
             ELSE [raised |-> NoError, log |-> issued, oldsrc |-> srcs,
                   src |-> [i \in 1..Len(order) |-> RebuiltEntry(order[i])],
                   builddir |-> built]

\* Rpm.configure_step
Rpm_configure_step ==
    /\ UNCHANGED notRpm
    /\ rpm_pc = "init"
    /\ \E exit \in ExitCodes, failAt \in 0..Len(src) :
        LET versionCmd == Cmd("rpm --version", "", {}, exit)
            ver == rpm_sys.version_output
            enable == IF NeedsRebuild(ver) THEN TRUE ELSE rebuild_rpm
        IN  IF ~rpm_sys.which_rpm
            THEN /\ raised' = EasyBuildError("Command 'rpm' is required but not available.")
                 /\ UNCHANGED <<log, rebuild_rpm, src, oldsrc, builddir>>
            ELSE IF exit # 0
            THEN /\ raised' = CmdFailed
                 /\ log' = Append(log, versionCmd)
                 /\ UNCHANGED <<rebuild_rpm, src, oldsrc, builddir>>
            ELSE IF ver = NoVersion
            THEN \* res is None: res.group() in the debug message raises
                 /\ raised' = PyError("AttributeError")
                 /\ log' = Append(log, versionCmd)
                 /\ UNCHANGED <<rebuild_rpm, src, oldsrc, builddir>>
            ELSE IF ~enable
            THEN /\ raised' = NoError
                 /\ log' = Append(log, versionCmd)
                 /\ rebuild_rpm' = enable
                 /\ UNCHANGED <<src, oldsrc, builddir>>
            ELSE \E order \in PermsOf(builddir \cup {src[i].name : i \in 1..Len(src)}) :
                    LET r == RebuildRpms(rpm_sys, src, oldsrc, builddir, failAt, order)
                    IN  /\ raised' = r.raised
                        /\ log' = Append(log, versionCmd) \o r.log
                        /\ rebuild_rpm' = enable
                        /\ src' = r.src
                        /\ oldsrc' = r.oldsrc
                        /\ builddir' = r.builddir
    /\ rpm_pc' = IF raised'.type = "None" THEN "configured" ELSE "configure_failed"
    /\ UNCHANGED <<rpm_cfg, rpm_sys>>

\* the options of one 'rpm -i' of install_step (cmd_tpl filled in)
RpmInstallFlags_NoRoot(cfg, rebuilt) ==
    {"--relocate /=" \o INSTALLDIR, "--nodeps", "--dbpath /rpm"}
        \cup (IF cfg.force THEN {"--force"} ELSE {})
        \cup (IF cfg.preinstall THEN {} ELSE {"--nopre"})
        \cup (IF cfg.postinstall THEN {} ELSE {"--nopost"})
RpmInstallFlags(cfg, rebuilt) ==
    {"--relocate /=" \o INSTALLDIR, "--nodeps"}
        \cup (IF cfg.force THEN {"--force"} ELSE {})
        \cup (IF cfg.preinstall THEN {} ELSE {"--nopre"})
        \cup (IF cfg.postinstall THEN {} ELSE {"--nopost"})
        \cup (IF rebuilt
              THEN {"--dbpath " \o INSTALLDIR \o "/rpm", "--ignorearch"}
              ELSE {"--dbpath /rpm", "--root " \o INSTALLDIR})

InitDbCmd == Cmd("rpm --initdb", "", {"--dbpath /rpm", "--root " \o INSTALLDIR}, 0)
RpmInstallCmd(cfg, rebuilt, rpm) == Cmd("rpm -i", rpm.path, RpmInstallFlags(cfg, rebuilt), 0)

\* the symlinks of the 'makesymlinks' loop: the first hit of every pattern
\* that has one
RECURSIVE Symlinks(_)
Symlinks(patterns) ==
    IF Len(patterns) = 0 THEN <<>>
    ELSE LET realdirs == SymlinkGlob(patterns[1])
         IN  (IF Len(realdirs) > 0
              THEN <<Event("symlink", realdirs[1], patterns[1], {}, 0)>>
              ELSE <<>>) \o Symlinks(Tail(patterns))

\* Rpm.install_step
Rpm_install_step ==
    /\ UNCHANGED notRpm
    /\ rpm_pc = "configured"
    /\ \E failAt \in 0..(Len(src) + 1) :
        LET cmdlist == <<InitDbCmd>> \o [i \in 1..Len(src) |-> RpmInstallCmd(rpm_cfg, rebuild_rpm, src[i])]
            issued == Issued(cmdlist, failAt)
            before == <<Event("change_dir", INSTALLDIR, "", {}, 0), Event("mkdir", "rpm", "", {}, 0)>>
        IN  IF failAt # 0
            THEN /\ raised' = CmdFailed
                 /\ log' = log \o before \o issued
                 /\ rpm_pc' = "install_failed"
            ELSE /\ raised' = NoError
                 /\ log' = log \o before \o issued \o Symlinks(rpm_cfg.makesymlinks)
                 /\ rpm_pc' = "installed"
    /\ UNCHANGED <<rebuild_rpm, src, oldsrc, rpm_cfg, rpm_sys, builddir>>

\* ========================================================================
\* IntelBase (generic/intelbase.py)
\* ========================================================================
ACTIVATION_EXIST_LIC == "exist_lic"
ACTIVATION_LIC_FILE == "license_file"
ACTIVATION_LIC_SERVER == "license_server"
ACTIVATION_SERIAL == "serial_number"
ACTIVATION_TRIAL == "trial_lic"
ACTIVATION_TYPES ==
    <<ACTIVATION_EXIST_LIC, ACTIVATION_LIC_FILE, ACTIVATION_LIC_SERVER, ACTIVATION_SERIAL,
      ACTIVATION_TRIAL>>
ACTIVATION_NAME == "ACTIVATION_TYPE"
INSTALL_DIR_NAME == "PSET_INSTALL_DIR"
INSTALL_MODE_NAME == "PSET_MODE"
INSTALL_MODE == "install"
LICENSE_FILE_NAME == "ACTIVATION_LICENSE_FILE"
LICENSE_SERIAL_NUMBER == "ACTIVATION_SERIAL_NUMBER"
COMP_ALL == "ALL"
COMP_DEFAULTS == "DEFAULTS"

\* Python's None where the other values are strings, and its truth value
None == "<None>"
Truthy(v) == v \notin {None, ""}
\* an optional list: Python's None or a list
NoList == [none |-> TRUE, list |-> <<>>]
List(l) == [none |-> FALSE, list |-> l]

\* an environment variable that is not defined
Unset == "<unset>"
DEFAULT_LIC_ENV_VAR == "INTEL_LICENSE_FILE"
EnvNames ==
    {"INTEL_LICENSE_FILE", "LM_LICENSE_FILE", "LOCAL_INSTALL_VERBOSE", "VERBOSE_MODE", "INSTALL_PATH"}

\* sep.join(parts)
RECURSIVE Join(_, _)
Join(sep, parts) ==
    IF Len(parts) = 0 THEN ""
    ELSE IF Len(parts) = 1 THEN parts[1]
    ELSE parts[1] \o sep \o Join(sep, Tail(parts))
PATHSEP == ":"

\* nub(list): the list without its repeated elements, first occurrences kept
RECURSIVE Nub(_)
Nub(l) ==
    IF Len(l) = 0 THEN <<>>
    ELSE LET front == Nub(SubSeq(l, 1, Len(l) - 1))
             last == l[Len(l)]
         IN  IF last \in Range(front) THEN front ELSE Append(front, last)

\* find_flexlm_license(custom_env_vars=[$INTEL_LICENSE_FILE], lic_specs=...) of the
\* framework: the valid license specifications of the first of
\* $INTEL_LICENSE_FILE, $LM_LICENSE_FILE and the given specifications that has
\* any, and the environment variable they came from (None for the given ones)
ValidSpecs(specs, valid) == Nub(SelectSeq(specs, LAMBDA x : x \in valid))
FindFlexlmLicense(host, lic_specs) ==
    LET fromIntel == ValidSpecs(host.env_intel, host.valid)
        fromLm == ValidSpecs(host.env_lm, host.valid)
        fromCfg == ValidSpecs(lic_specs, host.valid)
    IN  IF fromIntel # <<>> THEN [specs |-> fromIntel, var |-> "INTEL_LICENSE_FILE"]
        ELSE IF fromLm # <<>> THEN [specs |-> fromLm, var |-> "LM_LICENSE_FILE"]
        ELSE [specs |-> fromCfg, var |-> None]

\* the license part of prepare_step, once a lookup is needed.
\* Result: [raised, license_file, license_env_var, license_activation, environ]
ResolveLicense_KeepActivation(host, cfg, activation, env, current) ==
    LET found == FindFlexlmLicense(host, cfg.license_file)
        var == IF found.var = None THEN DEFAULT_LIC_ENV_VAR ELSE found.var
        joined == Join(PATHSEP, found.specs)
    IN  IF found.specs # <<>>
        THEN [raised |-> NoError, license_file |-> joined, license_env_var |-> var,
              license_activation |-> activation,
              environ |-> [env EXCEPT ![var] = joined]]
        ELSE [raised |-> EasyBuildError("No viable license specifications found"),
              license_file |-> current, license_env_var |-> found.var,
              license_activation |-> activation, environ |-> env]
ResolveLicense(host, cfg, activation, env, current) ==
    LET found == FindFlexlmLicense(host, cfg.license_file)
        var == IF found.var = None THEN DEFAULT_LIC_ENV_VAR ELSE found.var
        joined == Join(PATHSEP, found.specs)
    IN  IF found.specs # <<>>
        THEN [raised |-> NoError, license_file |-> joined, license_env_var |-> var,
              license_activation |->
                  IF Len(found.specs) > 1 THEN ACTIVATION_EXIST_LIC ELSE activation,
              environ |->
                  IF Len(found.specs) > 1
                  THEN [env EXCEPT ![var] = joined, ![DEFAULT_LIC_ENV_VAR] = joined]
                  ELSE [env EXCEPT ![var] = joined]]
        ELSE [raised |-> EasyBuildError("No viable license specifications found"),
              license_file |-> current, license_env_var |-> found.var,
              license_activation |-> activation, environ |-> env]

\* IntelBase.prepare_step(requires_runtime_license=kwarg)
Intel_prepare_step ==
    /\ UNCHANGED notIntel
    /\ intel_pc = "init"
    /\ \E kwarg \in BOOLEAN :
        LET rrl == intel_cfg.requires_runtime_license /\ kwarg
            serial == intel_cfg.serial_number
        IN  /\ requires_runtime_license' = rrl
            /\ serial_number' = serial
            /\ IF Truthy(serial) \/ ~rrl
               THEN /\ raised' = NoError
                    /\ UNCHANGED <<log, license_file, license_env_var, license_activation, environ>>
               ELSE LET r == ResolveLicense(intel_sys, intel_cfg, license_activation, environ, license_file)
                    IN  /\ raised' = r.raised
                        /\ log' = Append(log, Event("find_flexlm_license", "", "", {}, 0))
                        /\ license_file' = r.license_file
                        /\ license_env_var' = r.license_env_var
                        /\ license_activation' = r.license_activation
                        /\ environ' = r.environ
    /\ intel_pc' = IF raised'.type = "None" THEN "prepared" ELSE "prepare_failed"
    /\ UNCHANGED <<install_components, intel_cfg, intel_sys, silent_cfg, fs>>

\* ---- $HOME/intel and the local cache directory
\* fs.home is what $HOME/intel is: "absent", a real directory ("dir"), a
\* symlink to the local cache directory ("link_local"), a symlink to another
\* existing directory ("link_other") or a symlink whose target is missing
\* ("dangling"); fs.local tells whether the local cache directory exists,
\* fs.cache is what it contains, fs.backups what was moved out of the way.
HomeStates == {"absent", "dir", "link_local", "link_other", "dangling"}
HomeExists(f) == f.home \in {"dir", "link_other"} \/ (f.home = "link_local" /\ f.local)
HomeIsLink(f) == f.home \in {"link_local", "link_other", "dangling"}
HomeSameAsLocal(f) == f.home = "link_local" /\ f.local

SetupLocalHomeSubdir_NoBackup(f) == [f EXCEPT !.local = TRUE, !.home = "link_local"]
\* IntelBase.setup_local_home_subdir: an existing $HOME/intel that is not the
\* right symlink is moved into a backup directory, a broken symlink is removed
SetupLocalHomeSubdir(f) ==
    LET f1 == [f EXCEPT !.local = TRUE]
    IN  IF HomeExists(f1)
        THEN IF HomeIsLink(f1) /\ HomeSameAsLocal(f1)
             THEN f1
             ELSE [f1 EXCEPT !.backups = Append(@, f1.home), !.home = "link_local"]
        ELSE [f1 EXCEPT !.home = "link_local"]

\* IntelBase.clean_home_subdir
CleanHomeSubdir(f) == IF f.local THEN [f EXCEPT !.cache = {}] ELSE f

\* ---- components
\* the abbreviations listed in pset/mediaconfig.xml
AvailableComponents == <<"icc", "icc_ia32", "ifort">>
\* re.match(comp_regex, comp): the regular expression matches at the start of comp
ReMatch(comp_regex, comp) ==
    CASE comp_regex = "icc" -> comp \in {"icc", "icc_ia32"}
      [] comp_regex = "icc$" -> comp = "icc"
      [] comp_regex = "i" -> comp \in {"icc", "icc_ia32", "ifort"}
      [] comp_regex = "ifort" -> comp = "ifort"
      [] OTHER -> comp_regex = comp

RECURSIVE MatchingComponents(_)
MatchingComponents(regexes) ==
    IF Len(regexes) = 0 THEN <<>>
    ELSE SelectSeq(AvailableComponents, LAMBDA comp : ReMatch(regexes[1], comp))
            \o MatchingComponents(Tail(regexes))

\* IntelBase.parse_components_list. Result: [raised, install_components]
ParseComponentsList(host, components, current) ==
    IF ~host.mediaconfig
    THEN [raised |-> EasyBuildError("Could not find mediaconfig.xml to find list of components."),
          install_components |-> current]
    ELSE IF COMP_ALL \in Range(components) \/ COMP_DEFAULTS \in Range(components)
    THEN IF Len(components) = 1
         THEN [raised |-> NoError, install_components |-> List(components)]
         ELSE [raised |-> EasyBuildError("If you specify ALL or DEFAULTS as components, you cannot specify anything else"),
               install_components |-> current]
    ELSE [raised |-> NoError, install_components |-> List(MatchingComponents(components))]

\* IntelBase.configure_step
Intel_configure_step ==
    /\ UNCHANGED notIntel
    /\ intel_pc = "prepared"
    /\ fs' = CleanHomeSubdir(SetupLocalHomeSubdir(fs))
    /\ IF ~intel_cfg.components.none /\ intel_cfg.components.list # <<>>
       THEN LET r == ParseComponentsList(intel_sys, intel_cfg.components.list, install_components)
            IN  /\ raised' = r.raised
                /\ install_components' = r.install_components
       ELSE /\ raised' = NoError
            /\ UNCHANGED install_components
    /\ intel_pc' = IF raised'.type = "None" THEN "configured" ELSE "configure_failed"
    /\ UNCHANGED <<log, license_file, license_env_var, requires_runtime_license, serial_number,
                   license_activation, intel_cfg, intel_sys, environ, silent_cfg>>

\* ---- installation
\* one line 'key=val' of silent.cfg (the empty line has an empty key)
Line(key, val) == [key |-> key, val |-> val]
NoFile == <<>>
ONEAPI_VERSION == <<2021>>
UNQUOTED_COMPONENTS_VERSION == <<2017>>
SILENT_CFG == "silent.cfg"
LicFileServerActivations == {ACTIVATION_EXIST_LIC, ACTIVATION_LIC_FILE, ACTIVATION_LIC_SERVER}
OtherActivations == Range(ACTIVATION_TYPES) \ LicFileServerActivations

\* the license lines of silent.cfg. Result: [raised, activation, lines]
LicenseLines_StrictTypes(serial, runtime_license, activation, licfile) ==
    IF ~(Truthy(serial) \/ runtime_license)
    THEN [raised |-> NoError, activation |-> activation, lines |-> <<>>]
    ELSE IF Truthy(serial)
    THEN [raised |-> NoError, activation |-> ACTIVATION_SERIAL,
          lines |-> <<Line(ACTIVATION_NAME, ACTIVATION_SERIAL), Line(LICENSE_SERIAL_NUMBER, serial)>>]
    ELSE IF activation \in LicFileServerActivations
    THEN [raised |-> NoError, activation |-> activation,
          lines |-> <<Line(ACTIVATION_NAME, activation), Line(LICENSE_FILE_NAME, licfile)>>]
    ELSE IF activation # ACTIVATION_TRIAL
    THEN [raised |-> EasyBuildError("Unknown type of activation specified"),
          activation |-> activation, lines |-> <<>>]
    ELSE [raised |-> NoError, activation |-> activation,
          lines |-> <<Line(ACTIVATION_NAME, activation), Line("", "")>>]
LicenseLines(serial, runtime_license, activation, licfile) ==
    IF ~(Truthy(serial) \/ runtime_license)
    THEN [raised |-> NoError, activation |-> activation, lines |-> <<>>]
    ELSE IF Truthy(serial)
    THEN [raised |-> NoError, activation |-> ACTIVATION_SERIAL,
          lines |-> <<Line(ACTIVATION_NAME, ACTIVATION_SERIAL), Line(LICENSE_SERIAL_NUMBER, serial)>>]
    ELSE IF activation \in LicFileServerActivations
    THEN [raised |-> NoError, activation |-> activation,
          lines |-> <<Line(ACTIVATION_NAME, activation), Line(LICENSE_FILE_NAME, licfile)>>]
    ELSE IF activation \notin OtherActivations
    THEN [raised |-> EasyBuildError("Unknown type of activation specified"),
          activation |-> activation, lines |-> <<>>]
    ELSE [raised |-> NoError, activation |-> activation,
          lines |-> <<Line(ACTIVATION_NAME, activation), Line("", "")>>]

InstallLines ==
    <<Line(INSTALL_DIR_NAME, INSTALLDIR), Line("ACCEPT_EULA", "accept"),
      Line(INSTALL_MODE_NAME, INSTALL_MODE), Line("CONTINUE_WITH_OPTIONAL_ERROR", "yes")>>

ComponentsLines_Quoted(comps, version) ==
    IF comps.none THEN [raised |-> NoError, lines |-> <<>>]
    ELSE IF comps.list # <<>>
    THEN [raised |-> NoError, lines |-> <<Line("COMPONENTS", "\"" \o Join(";", comps.list) \o "\"")>>]
    ELSE [raised |-> EasyBuildError("Empty list of matching components obtained"), lines |-> <<>>]
\* the COMPONENTS line of silent.cfg. Result: [raised, lines]
ComponentsLines(comps, version) ==
    IF comps.none THEN [raised |-> NoError, lines |-> <<>>]
    ELSE IF Len(comps.list) = 1 /\ comps.list[1] \in {COMP_ALL, COMP_DEFAULTS}
    THEN [raised |-> NoError, lines |-> <<Line("COMPONENTS", comps.list[1])>>]
    ELSE IF comps.list # <<>>
    THEN IF LooseVersionGE(version, UNQUOTED_COMPONENTS_VERSION)
         THEN [raised |-> NoError, lines |-> <<Line("COMPONENTS", Join(";", comps.list))>>]
         ELSE [raised |-> NoError,
               lines |-> <<Line("COMPONENTS", "\"" \o Join(";", comps.list) \o "\"")>>]
    ELSE [raised |-> EasyBuildError("Empty list of matching components obtained"), lines |-> <<>>]

\* silent_cfg_extras: None, a dict (here with one entry) or something else
SilentCfgExtras == {"None", "dict", "list"}
ExtrasLines(extras) ==
    CASE extras = "None" -> [raised |-> NoError, lines |-> <<>>]
      [] extras = "dict" -> [raised |-> NoError, lines |-> <<Line("EXTRA_KEY", "extra_value")>>]
      [] OTHER -> [raised |-> EasyBuildError("silent_cfg_extras needs to be a dict"), lines |-> <<>>]

ClassicInstallCmd(exit) == Cmd("./install.sh", SILENT_CFG, {"-s " \o SILENT_CFG}, exit)
OneapiInstallCmd(script, comps, exit) ==
    Cmd("./" \o script, "",
        {"-a", "--action install", "--silent", "--eula accept", "--install-dir " \o INSTALLDIR}
            \cup (IF ~comps.none /\ comps.list # <<>>
                  THEN {"--components " \o Join(":", comps.list)} ELSE {}),
        exit)

\* what the vendor's installer leaves in $HOME/intel while and after it runs
InstallerCache(f, who) ==
    IF f.home = "link_local" /\ f.local THEN [f EXCEPT !.cache = @ \cup {who}] ELSE f

\* IntelBase.install_step_classic(silent_cfg_extras=extras)
Intel_install_step_classic(extras, exit) ==
    LET lic == LicenseLines(serial_number, requires_runtime_license, license_activation, license_file)
        comp == ComponentsLines(install_components, intel_cfg.version)
        extra == ExtrasLines(extras)
        failed == IF lic.raised # NoError THEN lic.raised
                  ELSE IF comp.raised # NoError THEN comp.raised
                  ELSE extra.raised
        silent == lic.lines \o InstallLines \o comp.lines \o extra.lines
    IN  /\ license_activation' = lic.activation
        /\ IF failed # NoError
           THEN /\ raised' = failed
                /\ UNCHANGED <<log, silent_cfg, environ, fs>>
           ELSE /\ silent_cfg' = silent
                /\ environ' = [environ EXCEPT !["LOCAL_INSTALL_VERBOSE"] = "1",
                                               !["VERBOSE_MODE"] = "1",
                                               !["INSTALL_PATH"] = INSTALLDIR]
                /\ log' = log \o <<Event("write_file", SILENT_CFG, "", {}, 0), ClassicInstallCmd(exit)>>
                /\ fs' = InstallerCache(fs, "install")
                /\ raised' = IF exit # 0 THEN CmdFailed ELSE NoError

\* IntelBase.install_step_oneapi
Intel_install_step_oneapi(exit) ==
    /\ UNCHANGED <<license_activation, silent_cfg, environ>>
    /\ IF ~intel_sys.eula_accepted
       THEN /\ raised' = EasyBuildError("The End User License Agreement (EULA) for Intel-oneAPI is currently not accepted")
            /\ UNCHANGED <<log, fs>>
       ELSE IF Len(intel_cfg.src) # 1
       THEN /\ raised' = EasyBuildError("Expected to find exactly one 'source' file (installation script)")
            /\ UNCHANGED <<log, fs>>
       ELSE /\ log' = log \o <<Event("adjust_permissions", intel_cfg.src[1], "", {}, 0),
                              OneapiInstallCmd(intel_cfg.src[1], install_components, exit)>>
            /\ fs' = InstallerCache(fs, "install")
            /\ raised' = IF exit # 0 THEN CmdFailed ELSE NoError

\* LooseVersion(self.version) >= LooseVersion('2021')
IsOneapi_Always(version) == TRUE
IsOneapi(version) == LooseVersionGE(version, ONEAPI_VERSION)

\* IntelBase.install_step
Intel_install_step ==
    /\ UNCHANGED notIntel
    /\ intel_pc = "configured"
    /\ \E extras \in SilentCfgExtras, exit \in ExitCodes :
        IF IsOneapi(intel_cfg.version)
        THEN Intel_install_step_oneapi(exit)
        ELSE Intel_install_step_classic(extras, exit)
    /\ intel_pc' = IF raised'.type = "None" THEN "installed" ELSE "install_failed"
    /\ UNCHANGED <<license_file, license_env_var, requires_runtime_license, serial_number,
                   install_components, intel_cfg, intel_sys>>

\* IntelBase.cleanup_step
Intel_cleanup_step ==
    /\ UNCHANGED notIntel
    /\ intel_pc = "installed"
    /\ fs' = CleanHomeSubdir(fs)
    /\ intel_pc' = "cleaned"
    /\ raised' = NoError
    /\ UNCHANGED <<log, license_file, license_env_var, requires_runtime_license, serial_number,
                   license_activation, install_components, intel_cfg, intel_sys, environ, silent_cfg>>

\* ---- construction
LicenseSpecs == {"27009@licsrv", "/opt/intel/licenses/a.lic"}
IntelVersions == {<<2016, 3, 210>>, <<2017>>, <<2020, 4, 304>>, <<2021>>, <<2021, 4, 0>>, <<2024, 0>>}
SourceNames == <<"l_installer_offline.sh", "extra_file.sh", "third_file.sh">>
IntelCfgs ==
    [requires_runtime_license : BOOLEAN,
     serial_number : {None, "SN-1234"},
     license_file : {<<>>, <<"27009@licsrv">>, <<"27009@licsrv", "/opt/intel/licenses/a.lic">>},
     license_activation : Range(ACTIVATION_TYPES) \cup {"bogus"},
     components : {NoList, List(<<COMP_ALL>>), List(<<COMP_DEFAULTS>>), List(<<"icc">>),
                   List(<<"mkl">>), List(<<"icc$", "ifort">>), List(<<"icc", "i">>),
                   List(<<COMP_DEFAULTS, "icc">>)},
     version : IntelVersions,
     src : {SubSeq(SourceNames, 1, n) : n \in 0..MaxSrc}]
IntelHosts ==
    [env_intel : {<<>>, <<"/opt/intel/licenses/a.lic">>,
                  <<"/opt/intel/licenses/a.lic", "27009@licsrv", "/opt/intel/licenses/a.lic">>},
     env_lm : {<<>>, <<"27009@licsrv">>},
     valid : SUBSET LicenseSpecs,
     eula_accepted : BOOLEAN,
     mediaconfig : BOOLEAN,
     home : HomeStates,
     local : BOOLEAN]

EnvValue(specs) == IF specs = <<>> THEN Unset ELSE Join(PATHSEP, specs)

\* IntelBase.__init__ for an easyconfig of Cfgs on a host of Hosts
IntelInit(Cfgs, Hosts) ==
    /\ intel_pc = "init"
    /\ intel_cfg \in Cfgs
    /\ intel_sys \in Hosts
    /\ license_file = "UNKNOWN"
    /\ license_env_var = "UNKNOWN"
    /\ requires_runtime_license = TRUE
    /\ serial_number = None
    /\ license_activation = intel_cfg.license_activation
    /\ install_components = NoList
    /\ environ = [n \in EnvNames |->
                    CASE n = "INTEL_LICENSE_FILE" -> EnvValue(intel_sys.env_intel)
                      [] n = "LM_LICENSE_FILE" -> EnvValue(intel_sys.env_lm)
                      [] OTHER -> Unset]
    /\ silent_cfg = NoFile
    /\ fs = [home |-> intel_sys.home, local |-> intel_sys.local, cache |-> {}, backups |-> <<>>]

IntelIdle ==
    /\ intel_pc = "unused"
    /\ intel_cfg = [requires_runtime_license |-> TRUE, serial_number |-> None, license_file |-> <<>>,
                    license_activation |-> ACTIVATION_LIC_SERVER, components |-> NoList,
                    version |-> <<>>, src |-> <<>>]
    /\ intel_sys = [env_intel |-> <<>>, env_lm |-> <<>>, valid |-> {}, eula_accepted |-> FALSE,
                    mediaconfig |-> FALSE, home |-> "absent", local |-> FALSE]
    /\ license_file = "UNKNOWN"
    /\ license_env_var = "UNKNOWN"
    /\ requires_runtime_license = TRUE
    /\ serial_number = None
    /\ license_activation = ACTIVATION_LIC_SERVER
    /\ install_components = NoList
    /\ environ = [n \in EnvNames |-> Unset]
    /\ silent_cfg = NoFile
    /\ fs = [home |-> "absent", local |-> FALSE, cache |-> {}, backups |-> <<>>]

\* ========================================================================
\* IntelBase installs of the same user, run at the same time
\* (generic/intelbase.py). All compute the same home_subdir ($HOME/intel, in
\* a home directory that the nodes share) and the same path for
\* home_subdir_local (<common tmp>/<USER>/easybuild_intel), which is a
\* directory of the local disk of the node an install runs on. The vendor's
\* installer runs for a long time inside install_step: the step is split
\* where run_shell_cmd starts it and where it exits, and the other installs
\* may take steps in between.
\* ========================================================================
Installs == 1..NumInstalls
Nodes == {"node1", "node2"}

\* the file system as the steps of an install on node n see it, and the file
\* system once such a step has made it v
OnNode(f, n) == [home |-> f.home, local |-> f.local[n], cache |-> f.cache[n], backups |-> f.backups]
FromNode(f, n, v) ==
    [home |-> v.home, backups |-> v.backups,
     local |-> [f.local EXCEPT ![n] = v.local], cache |-> [f.cache EXCEPT ![n] = v.cache]]

ParInit ==
    /\ par_pc = [p \in Installs |-> "prepared"]
    /\ par_node \in [Installs -> Nodes]
    /\ \E home \in HomeStates, local \in [Nodes -> BOOLEAN] :
        par_fs = [home |-> home, local |-> local, cache |-> [n \in Nodes |-> {}], backups |-> <<>>]

ParIdle ==
    /\ par_pc = <<>>
    /\ par_node = <<>>
    /\ par_fs = [home |-> "absent", local |-> <<>>, cache |-> <<>>, backups |-> <<>>]

\* IntelBase.configure_step of install p (no 'components' are specified)
Par_configure_step(p) ==
    /\ UNCHANGED notPar
    /\ par_pc[p] = "prepared"
    /\ par_fs' = FromNode(par_fs, par_node[p],
                          CleanHomeSubdir(SetupLocalHomeSubdir(OnNode(par_fs, par_node[p]))))
    /\ par_pc' = [par_pc EXCEPT ![p] = "configured"]
    /\ raised' = NoError
    /\ UNCHANGED <<log, par_node>>

\* IntelBase.install_step of install p, up to the start of the installer,
\* which caches its files in $HOME/intel
Par_install_step_begin(p) ==
    /\ UNCHANGED notPar
    /\ par_pc[p] = "configured"
    /\ par_fs' = FromNode(par_fs, par_node[p], InstallerCache(OnNode(par_fs, par_node[p]), p))
    /\ par_pc' = [par_pc EXCEPT ![p] = "installing"]
    /\ UNCHANGED <<log, raised, par_node>>

\* ... and from the exit of the installer
Par_install_step_end(p) ==
    /\ UNCHANGED notPar
    /\ par_pc[p] = "installing"
    /\ \E exit \in ExitCodes :
        /\ raised' = IF exit # 0 THEN CmdFailed ELSE NoError
        /\ par_pc' = [par_pc EXCEPT ![p] = IF exit # 0 THEN "install_failed" ELSE "installed"]
    /\ UNCHANGED <<log, par_fs, par_node>>

\* IntelBase.cleanup_step of install p
Par_cleanup_step(p) ==
    /\ UNCHANGED notPar
    /\ par_pc[p] = "installed"
    /\ par_fs' = FromNode(par_fs, par_node[p], CleanHomeSubdir(OnNode(par_fs, par_node[p])))
    /\ par_pc' = [par_pc EXCEPT ![p] = "cleaned"]
    /\ raised' = NoError
    /\ UNCHANGED <<log, par_node>>

\* ========================================================================
\* Easyblocks that are not instantiated
\* ========================================================================
MapleIdle ==
    /\ maple_pc = "unused"
    /\ maple_builddir = {}
    /\ maple_cfg = [license_server |-> "", license_server_port |-> None]

EbIdle ==
    /\ eb_pc = "unused"
    /\ initial_environ = <<>>
    /\ real_initial_environ = <<>>
    /\ os_environ = <<>>
    /\ eb_sys = <<>>

NclIdle == ncl_pc = "unused" /\ ncl_sys = <<>>

HadoopIdle == hadoop_pc = "unused" /\ hadoop_cfg = <<>> /\ hadoop_sys = <<>>

WrfIdle == wrf_pc = "unused" /\ wrf_cfg = <<>> /\ wrf_sys = <<>>

OthersIdle == ParIdle /\ MapleIdle /\ EbIdle /\ NclIdle /\ HadoopIdle /\ WrfIdle

\* ========================================================================
\* EB_Maple (m/maple.py)
\* ========================================================================
\* A file name is the list of its parts; a glob pattern is a list of parts in
\* which "*" stands for any run of parts (fnmatch is case-sensitive).
RECURSIVE FnMatch(_, _)
FnMatch(pattern, name) ==
    IF pattern = <<>> THEN name = <<>>
    ELSE IF pattern[1] = "*"
    THEN FnMatch(Tail(pattern), name) \/ (name # <<>> /\ FnMatch(pattern, Tail(name)))
    ELSE name # <<>> /\ name[1] = pattern[1] /\ FnMatch(Tail(pattern), Tail(name))

\* glob.glob(os.path.join(self.builddir, pattern))
Glob(files, pattern) == {f \in files : FnMatch(pattern, f)}

INSTALLER_PATTERN == <<"Maple", "*", "Installer", "*">>
UPGRADE_PATTERN == <<"Maple", "*", "Upgrade", "*">>

MapleFiles ==
    {<<"Maple", "2020", "LinuxX64", "Installer", ".run">>,
     <<"Maple", "2019", "LinuxX64", "Installer", ".run">>,
     <<"Maple", "2020.1", "LinuxX64", "Upgrade", ".run">>,
     <<"Maple", "2020.2", "LinuxX64", "Upgrade", ".run">>,
     <<"Maple", "2020", "Upgrade", "Installer", ".run">>,
     <<"maple", "Installer", ".run">>,
     <<"README">>}

MapleInit ==
    /\ maple_pc = "init"
    /\ maple_builddir \in SUBSET MapleFiles
    /\ maple_cfg \in [license_server : {"lic.example.org"}, license_server_port : {None, "27000"}]

\* the installer to run among the files found. Result: [raised, cmd]
PickInstaller_Any(found, several, none) ==
    IF found # {}
    THEN [raised |-> NoError, cmd |-> CHOOSE f \in found : TRUE]
    ELSE [raised |-> EasyBuildError(none), cmd |-> <<>>]
PickInstaller(found, several, none) ==
    IF found # {}
    THEN IF Cardinality(found) = 1
         THEN [raised |-> NoError, cmd |-> CHOOSE f \in found : TRUE]
         ELSE [raised |-> EasyBuildError(several), cmd |-> <<>>]
    ELSE [raised |-> EasyBuildError(none), cmd |-> <<>>]

\* the answers of the question/answer pairs that depend on the easyconfig
MapleAnswers(cfg) ==
    [installdir |-> INSTALLDIR, license_server |-> cfg.license_server,
     port |-> IF Truthy(cfg.license_server_port) THEN cfg.license_server_port ELSE ""]
MapleInstallerCmd(cmd, cfg, exit) ==
    Cmd(cmd, MapleAnswers(cfg), {"qa_patterns", "qa_wait_patterns", "qa_timeout=150"}, exit)
MapleUpgradeCmd(cmd, exit) ==
    Cmd(cmd, [installdir |-> INSTALLDIR], {"qa_patterns"}, exit)

\* EB_Maple.install_step
Maple_install_step ==
    /\ UNCHANGED notMaple
    /\ maple_pc = "init"
    /\ LET main == PickInstaller(Glob(maple_builddir, INSTALLER_PATTERN),
                                 "Found multiple installers", "Could not locate installer")
           upgrades == Glob(maple_builddir, UPGRADE_PATTERN)
           upgrade == PickInstaller(upgrades, "Found multiple upgrade installers", "")
       IN  IF main.raised # NoError
           THEN raised' = main.raised /\ UNCHANGED log
           ELSE \E exit1, exit2 \in ExitCodes :
                  IF exit1 # 0
                  THEN /\ log' = Append(log, MapleInstallerCmd(main.cmd, maple_cfg, exit1))
                       /\ raised' = CmdFailed
                  ELSE IF upgrades = {}
                  THEN /\ log' = Append(log, MapleInstallerCmd(main.cmd, maple_cfg, exit1))
                       /\ raised' = NoError
                  ELSE IF upgrade.raised # NoError
                  THEN /\ log' = Append(log, MapleInstallerCmd(main.cmd, maple_cfg, exit1))
                       /\ raised' = upgrade.raised
                  ELSE /\ log' = log \o <<MapleInstallerCmd(main.cmd, maple_cfg, exit1),
                                          MapleUpgradeCmd(upgrade.cmd, exit2)>>
                       /\ raised' = IF exit2 # 0 THEN CmdFailed ELSE NoError
    /\ maple_pc' = IF raised'.type = "None" THEN "installed" ELSE "install_failed"
    /\ UNCHANGED <<maple_builddir, maple_cfg>>

\* ========================================================================
\* EB_EasyBuildMeta (e/easybuildmeta.py)
\* ========================================================================
\* The name of an environment variable is the list of its parts, so that
\* k.startswith('EASYBUILD_') is a test on the first part; an environment is
\* the function from the names that are defined to their values.
MODULES_ENV_VARS ==
    <<<<"_LMFILES_">>, <<"LOADEDMODULES">>, <<"MODULES_LMCONFLICT">>, <<"__MODULES_LMCONFLICT">>>>
StartsWithEasybuild(k) == k[1] = "EASYBUILD_"

Pop(env, k) == [n \in DOMAIN env \ {k} |-> env[n]]
RECURSIVE PopAll(_, _)
PopAll(env, keys) ==
    IF keys = {} THEN env
    ELSE LET k == CHOOSE k \in keys : TRUE IN PopAll(Pop(env, k), keys \ {k})

\* the loop over the variables of the loaded modules: each one found in
\* initial_environ is popped from it and from os.environ, where pop raises
\* KeyError for a variable that is not defined. Result: [raised, initial, os]
RECURSIVE CleanseModulesEnv(_, _, _)
CleanseModulesEnv(env_vars, initial, os) ==
    IF env_vars = <<>> THEN [raised |-> NoError, initial |-> initial, os |-> os]
    ELSE IF env_vars[1] \in DOMAIN initial
    THEN IF env_vars[1] \in DOMAIN os
         THEN CleanseModulesEnv(Tail(env_vars), Pop(initial, env_vars[1]), Pop(os, env_vars[1]))
         ELSE [raised |-> PyError("KeyError"), initial |-> Pop(initial, env_vars[1]), os |-> os]
    ELSE CleanseModulesEnv(Tail(env_vars), initial, os)

\* the $EASYBUILD_* variables are popped from initial_environ only
CleanseEasybuildEnv(initial) ==
    PopAll(initial, {k \in DOMAIN initial : StartsWithEasybuild(k)})

\* what stops sanity_check_step before the environment is cleansed
SanityPrecheck(host) ==
    CASE host.precheck = "pth_pattern" -> EasyBuildError("Failed to find pattern in easy-install.pth")
      [] host.precheck = "egg_dir" -> EasyBuildError("Failed to isolate installed egg dir")
      [] host.precheck = "no_setup_tool" -> PyError("KeyError")
      [] OTHER -> NoError

SanityCheckFailed == EasyBuildError("Sanity check failed")
ModuleFailed == EasyBuildError("Failed to create module file")
StepEvent(step, fake, exit) == Event("step", step, fake, {}, exit)

\* EB_EasyBuildMeta.sanity_check_step
EB_sanity_check_step ==
    /\ UNCHANGED notEb
    /\ eb_pc = "ready"
    /\ Len(log) < MaxSteps
    /\ LET pre == SanityPrecheck(eb_sys)
           mods == CleanseModulesEnv(MODULES_ENV_VARS, initial_environ, os_environ)
       IN  IF pre # NoError
           THEN /\ raised' = pre
                /\ UNCHANGED <<initial_environ, os_environ>>
           ELSE IF mods.raised # NoError
           THEN /\ raised' = mods.raised
                /\ initial_environ' = mods.initial
                /\ os_environ' = mods.os
           ELSE /\ initial_environ' = CleanseEasybuildEnv(mods.initial)
                /\ os_environ' = mods.os
                /\ \E ok \in BOOLEAN : raised' = IF ok THEN NoError ELSE SanityCheckFailed
    /\ log' = Append(log, StepEvent("sanity_check_step", FALSE, IF raised' = NoError THEN 0 ELSE 1))
    /\ UNCHANGED <<eb_pc, real_initial_environ, eb_sys>>

\* the copy of the original environment is restored unless the module is a fake one
Restore_Always(fake, initial, real) == real
Restore(fake, initial, real) == IF ~fake THEN real ELSE initial

\* EB_EasyBuildMeta.make_module_step(fake)
EB_make_module_step ==
    /\ UNCHANGED notEb
    /\ eb_pc = "ready"
    /\ Len(log) < MaxSteps
    /\ \E fake \in BOOLEAN, ok \in BOOLEAN :
        /\ raised' = IF ok THEN NoError ELSE ModuleFailed
        /\ initial_environ' = IF ok THEN Restore(fake, initial_environ, real_initial_environ)
                              ELSE initial_environ
        /\ log' = Append(log, StepEvent("make_module_step", fake, IF ok THEN 0 ELSE 1))
    /\ UNCHANGED <<eb_pc, real_initial_environ, os_environ, eb_sys>>

\* ---- construction
EnvValueOf(n) == "value of $" \o Join("", n)
Environment(names) == [n \in names |-> EnvValueOf(n)]
OtherEnvNames == {<<"PATH">>, <<"EASYBUILD">>, <<"MY_", "EASYBUILD_", "PREFIX">>}
ModulesEnvChoices ==
    {{}, {<<"LOADEDMODULES">>, <<"_LMFILES_">>}, {<<"MODULES_LMCONFLICT">>}, Range(MODULES_ENV_VARS)}
EasybuildEnvChoices ==
    {{}, {<<"EASYBUILD_", "PREFIX">>}, {<<"EASYBUILD_", "PREFIX">>, <<"EASYBUILD_", "DEPRECATED">>}}
EbHosts == [precheck : {"ok", "pth_pattern", "egg_dir", "no_setup_tool"}, purged : BOOLEAN]

\* EB_EasyBuildMeta.__init__: initial_environ is the copy of os.environ the
\* framework took; modules may have been unloaded from os.environ by the
\* time the steps run (host.purged)
EbInit ==
    /\ eb_pc = "ready"
    /\ eb_sys \in EbHosts
    /\ \E mods \in ModulesEnvChoices, ebs \in EasybuildEnvChoices :
        /\ initial_environ = Environment(OtherEnvNames \cup mods \cup ebs)
        /\ os_environ = Environment(OtherEnvNames \cup ebs
                                    \cup (IF eb_sys.purged
                                          THEN mods \ {<<"LOADEDMODULES">>, <<"_LMFILES_">>}
                                          ELSE mods))
    /\ real_initial_environ = initial_environ

\* ========================================================================
\* EB_NCL (n/ncl.py)
\* ========================================================================
NCL_DEPS == <<"HDF5", "JasPer", "netCDF", "HDF", "g2lib", "g2clib", "Szip", "UDUNITS">>

\* the first dependency of deps that get_software_root does not find ("" if none)
RECURSIVE FirstMissing(_, _)
FirstMissing(deps, loaded) ==
    IF deps = <<>> THEN ""
    ELSE IF deps[1] \notin loaded THEN deps[1]
    ELSE FirstMissing(Tail(deps), loaded)

NclHosts ==
    [config_dir : BOOLEAN,
     \* the Makefile that ymake generates has a line SYSTEM_INCLUDE = "..." or not
     system_include : BOOLEAN,
     start_dir : BOOLEAN,
     loaded : {Range(NCL_DEPS), Range(NCL_DEPS) \cup {"GDAL"}, Range(NCL_DEPS) \ {"HDF5"},
               Range(NCL_DEPS) \ {"Szip", "UDUNITS"}, {}}]

NclInit == ncl_pc = "init" /\ ncl_sys \in NclHosts

\* EB_NCL.configure_step
NCL_configure_step ==
    /\ UNCHANGED notNcl
    /\ ncl_pc = "init"
    /\ IF ~ncl_sys.config_dir
       THEN /\ raised' = EasyBuildError("Failed to change to the 'config' dir")
            /\ UNCHANGED log
       ELSE \E failAt \in 0..2, exit \in ExitCodes :
              LET first == Issued(<<Cmd("make", "", {"-f Makefile.ini"}, 0),
                                    Cmd("./ymake", "", {"-config $PWD"}, 0)>>, failAt)
                  missing == FirstMissing(NCL_DEPS, ncl_sys.loaded)
                  patch == <<Event("read_file", "Makefile", "", {}, 0),
                             Event("patch_file", "<cfg_filename>", "", {}, 0)>>
                  site == Event("write_file", "config/Site.local", "", {}, 0)
              IN  IF failAt # 0
                  THEN /\ log' = log \o <<Event("change_dir", "config", "", {}, 0)>> \o first
                       /\ raised' = CmdFailed
                  ELSE IF ~ncl_sys.system_include
                  \* cfg_regexp.search(txt) is None, and None has no group()
                  THEN /\ log' = log \o <<Event("change_dir", "config", "", {}, 0)>> \o first
                                     \o <<Event("read_file", "Makefile", "", {}, 0)>>
                       /\ raised' = PyError("AttributeError")
                  ELSE IF ~ncl_sys.start_dir
                  THEN /\ log' = log \o <<Event("change_dir", "config", "", {}, 0)>> \o first \o patch
                       /\ raised' = EasyBuildError("Failed to change to the build dir")
                  ELSE IF missing # ""
                  THEN /\ log' = log \o <<Event("change_dir", "config", "", {}, 0)>> \o first \o patch
                                     \o <<Event("change_dir", "<start_dir>", "", {}, 0)>>
                       /\ raised' = EasyBuildError(missing \o " not available")
                  ELSE /\ log' = log \o <<Event("change_dir", "config", "", {}, 0)>> \o first \o patch
                                     \o <<Event("change_dir", "<start_dir>", "", {}, 0), site,
                                          Cmd("./config/ymkmf", "", {}, exit)>>
                       /\ raised' = IF exit # 0 THEN CmdFailed ELSE NoError
    /\ ncl_pc' = IF raised'.type = "None" THEN "configured" ELSE "configure_failed"
    /\ UNCHANGED ncl_sys

\* ========================================================================
\* EB_Hadoop (h/hadoop.py)
\* ========================================================================
\* an entry of extra_native_libs: (native library, glob pattern of its files)
NativeLib(name) == [name |-> name, lib_path |-> "lib*/lib" \o name \o ".so*"]
\* glob.glob(<root>/<lib_path>): 'lib64' may be a symlink to 'lib', which
\* gives the same file name twice
NativeLibFiles(host, name) ==
    IF host.lib64_symlink
    THEN <<"lib/lib" \o name \o ".so", "lib64/lib" \o name \o ".so">>
    ELSE <<"lib/lib" \o name \o ".so">>
\* os.path.basename
Basename(path) ==
    CASE path \in {"lib/libsnappy.so", "lib64/libsnappy.so"} -> "libsnappy.so"
      [] path \in {"lib/libbz2.so", "lib64/libbz2.so"} -> "libbz2.so"
      [] OTHER -> path

HadoopCfgs ==
    [build_native_libs : BOOLEAN,
     extra_native_libs : {<<>>, <<NativeLib("snappy")>>, <<NativeLib("snappy"), NativeLib("bz2")>>},
     parallel : {1, 4}]
HadoopHosts ==
    [loaded : SUBSET {"snappy", "bz2"},     \* get_software_root finds the library
     lib64_symlink : BOOLEAN,
     paths_ok : BOOLEAN,                     \* the files and directories of the sanity check exist
     checknative_exit : ExitCodes,           \* exit code of 'hadoop checknative -a'
     checknative_true : SUBSET {"snappy", "bz2"}]    \* libraries it reports as 'true <installdir>/lib/native'

HadoopInit == hadoop_pc = "init" /\ hadoop_cfg \in HadoopCfgs /\ hadoop_sys \in HadoopHosts

\* the options build_step adds for the extra native libraries.
\* Result: [raised, flags]
RECURSIVE NativeLibFlags(_, _)
NativeLibFlags(libs, loaded) ==
    IF libs = <<>> THEN [raised |-> NoError, flags |-> {}]
    ELSE IF libs[1].name \notin loaded
    THEN [raised |-> EasyBuildError(libs[1].name \o " not found. Failing install"), flags |-> {}]
    ELSE LET rest == NativeLibFlags(Tail(libs), loaded)
         IN  [raised |-> rest.raised,
              flags |-> {"-Drequire." \o libs[1].name \o "=true"} \cup rest.flags]

\* EB_Hadoop.build_step
Hadoop_build_step ==
    /\ UNCHANGED notHadoop
    /\ hadoop_pc = "init"
    /\ IF hadoop_cfg.build_native_libs
       THEN LET libs == NativeLibFlags(hadoop_cfg.extra_native_libs, hadoop_sys.loaded)
                flags == {"package", "-DskipTests", "-Dmaven.javadoc.skip", "-Dtar", "-Pdist,native"}
                            \cup libs.flags
                            \cup (IF hadoop_cfg.parallel > 1 THEN {"-T"} ELSE {})
            IN  IF libs.raised # NoError
                THEN raised' = libs.raised /\ UNCHANGED log
                ELSE \E failAt \in 0..1 :
                        /\ log' = log \o Issued(<<Cmd("mvn", "", flags, 0)>>, failAt)
                        /\ raised' = IF failAt # 0 THEN CmdFailed ELSE NoError
       ELSE raised' = NoError /\ UNCHANGED log
    /\ hadoop_pc' = IF raised'.type = "None" THEN "built" ELSE "build_failed"
    /\ UNCHANGED <<hadoop_cfg, hadoop_sys>>

\* EB_Hadoop.install_step: install-by-copy
Hadoop_install_step ==
    /\ UNCHANGED notHadoop
    /\ hadoop_pc = "built"
    /\ log' = Append(log, Event("copy_dir",
                                IF hadoop_cfg.build_native_libs
                                THEN "<start_dir>/hadoop-dist/target/hadoop-<version>" ELSE "<start_dir>",
                                INSTALLDIR, {}, 0))
    /\ raised' = NoError
    /\ hadoop_pc' = "installed"
    /\ UNCHANGED <<hadoop_cfg, hadoop_sys>>

\* the files of one library copied to <installdir>/lib/native, each file name once
RECURSIVE CopyLibs(_, _)
CopyLibs(files, copied_libs) ==
    IF files = <<>> THEN <<>>
    ELSE IF Basename(files[1]) \in copied_libs THEN CopyLibs(Tail(files), copied_libs)
    ELSE <<Event("copy_file", files[1], INSTALLDIR \o "/lib/native", {}, 0)>>
            \o CopyLibs(Tail(files), copied_libs \cup {Basename(files[1])})

\* the loop of post_processing_step. Result: [raised, events]
RECURSIVE CopyNativeLibs(_, _)
CopyNativeLibs(libs, host) ==
    IF libs = <<>> THEN [raised |-> NoError, events |-> <<>>]
    ELSE IF libs[1].name \notin host.loaded
    \* get_software_root gives None, and os.path.join(None, lib_path) raises
    THEN [raised |-> PyError("TypeError"), events |-> <<>>]
    ELSE LET rest == CopyNativeLibs(Tail(libs), host)
         IN  [raised |-> rest.raised,
              events |-> CopyLibs(NativeLibFiles(host, libs[1].name), {}) \o rest.events]

\* EB_Hadoop.post_processing_step
Hadoop_post_processing_step ==
    /\ UNCHANGED notHadoop
    /\ hadoop_pc = "installed"
    /\ LET r == CopyNativeLibs(hadoop_cfg.extra_native_libs, hadoop_sys)
       IN  /\ log' = log \o r.events
           /\ raised' = r.raised
    /\ hadoop_pc' = IF raised'.type = "None" THEN "post_processed" ELSE "post_processing_failed"
    /\ UNCHANGED <<hadoop_cfg, hadoop_sys>>

\* the extra native libraries that the output of checknative does not report
NotFound(libs, reported) == SelectSeq(libs, LAMBDA l : l.name \notin reported)
ChecknativeCmd(exit) == Cmd("hadoop", "", {"checknative", "-a", "fail_on_error=False"}, exit)

\* EB_Hadoop.sanity_check_step
Hadoop_sanity_check_step ==
    /\ UNCHANGED notHadoop
    /\ hadoop_pc = "post_processed"
    /\ IF ~hadoop_sys.paths_ok
       THEN /\ raised' = SanityCheckFailed
            /\ log' = Append(log, Event("sanity_check_paths", "", "", {}, 1))
       ELSE /\ log' = log \o <<Event("sanity_check_paths", "", "", {}, 0),
                               Event("load_fake_module", "", "", {"purge"}, 0),
                               ChecknativeCmd(hadoop_sys.checknative_exit),
                               Event("clean_up_fake_module", "", "", {}, 0)>>
            /\ raised' = IF NotFound(hadoop_cfg.extra_native_libs, hadoop_sys.checknative_true) # <<>>
                         THEN EasyBuildError("not found by 'hadoop checknative -a'.")
                         ELSE NoError
    /\ hadoop_pc' = IF raised'.type = "None" THEN "sanity_checked" ELSE "sanity_check_failed"
    /\ UNCHANGED <<hadoop_cfg, hadoop_sys>>

\* ========================================================================
\* EB_WRF (w/wrf.py): test_step
\* ========================================================================
PARALLEL_BUILD_TYPES == {"dmpar", "dm+sm"}
\* '2d_' in test
Has2d(test) == test \in {"em_hill2d_x"}
\* test.endswith("_real")
EndsWithReal(test) == test \in {"em_real"}
EXCLUDED_TESTS == {"em_esmf_exp", "em_scm_xy", "nmm_tropical_cyclone"}
INTEL_HANGING_TESTS == {"em_heldsuarez"}

\* self.testcases once the test cases that are not to be run are taken out
WrfTestCases(cfg, listing) ==
    SelectSeq(listing,
              LAMBDA test :
                /\ ~(cfg.buildtype \in PARALLEL_BUILD_TYPES /\ Has2d(test))
                /\ ~EndsWithReal(test)
                /\ test \notin EXCLUDED_TESTS
                /\ ~(cfg.comp_fam = "Intel" /\ test \in INTEL_HANGING_TESTS))

\* what a test case does: exit code of './compile', exit code of the test
\* command, and rsl.error.0000 ("missing", with or without the success pattern)
WrfOutcomes == [compile : ExitCodes, exit : ExitCodes, out : {"missing", "success", "nosuccess"}]

WrfTestCmd(cfg, test, exit) ==
    Cmd("ulimit -s unlimited && ./ideal.exe && ./wrf.exe", test,
        {"fail_on_error=False"} \cup (IF cfg.buildtype \in PARALLEL_BUILD_TYPES THEN {"mpi"} ELSE {}),
        exit)

\* run_test() of test_step. Result: [raised, events]
RunTest(cfg, test, o) ==
    LET ran == <<WrfTestCmd(cfg, test, o.exit)>>
                 \o (IF o.out # "missing" THEN <<Event("read_file", "rsl.error.0000", test, {}, 0)>>
                     ELSE <<>>)
    IN  IF o.exit = 0
        THEN IF o.out = "success"
             THEN [raised |-> NoError,
                   events |-> ran \o <<Event("remove_files", "rsl.error.*", test, {}, 0)>>]
             ELSE [raised |-> EasyBuildError("Test failed, pattern not found"), events |-> ran]
        ELSE [raised |-> EasyBuildError("Test failed with exit code"), events |-> ran]

\* run_test() for each subtest of em_fire, after its files are linked
RECURSIVE RunSubtests(_, _, _, _)
RunSubtests(cfg, test, subtests, o) ==
    IF subtests = <<>> THEN [raised |-> NoError, events |-> <<>>]
    ELSE LET first == RunTest(cfg, test, o)
             link == <<Event("symlink", subtests[1], test, {}, 0)>>
         IN  IF first.raised # NoError
             THEN [raised |-> first.raised, events |-> link \o first.events]
             ELSE LET rest == RunSubtests(cfg, test, Tail(subtests), o)
                  IN  [raised |-> rest.raised, events |-> link \o first.events \o rest.events]

\* the body of the loop over the test cases, for one test case
RunTestCase(cfg, host, test, o) ==
    LET compile == Issued(<<Cmd("./compile", test, {}, 0)>>, IF o.compile # 0 THEN 1 ELSE 0)
        run == IF test = "em_fire" THEN RunSubtests(cfg, test, host.fire_subtests, o)
               ELSE RunTest(cfg, test, o)
        enter == <<Event("change_dir", "run", test, {}, 0)>>
    IN  IF o.compile # 0 THEN [raised |-> CmdFailed, events |-> compile]
        ELSE IF run.raised # NoError
        THEN [raised |-> run.raised, events |-> compile \o enter \o run.events]
        ELSE [raised |-> NoError,
              events |-> compile \o enter \o run.events
                            \o <<Event("change_dir", "<prev_dir>", test, {}, 0)>>]

RECURSIVE RunTestCases(_, _, _, _)
RunTestCases(cfg, host, tests, res) ==
    IF tests = <<>> THEN [raised |-> NoError, events |-> <<>>]
    ELSE LET first == RunTestCase(cfg, host, tests[1], res[tests[1]])
         IN  IF first.raised # NoError THEN first
             ELSE LET rest == RunTestCases(cfg, host, Tail(tests), res)
                  IN  [raised |-> rest.raised, events |-> first.events \o rest.events]

\* EB_WRF.test_step
WRF_test_step ==
    /\ UNCHANGED notWrf
    /\ wrf_pc = "built"
    /\ IF ~wrf_cfg.runtest
       THEN raised' = NoError /\ UNCHANGED log
       ELSE IF wrf_cfg.buildtype \in PARALLEL_BUILD_TYPES /\ ~wrf_cfg.mpi_tests
       THEN raised' = NoError /\ UNCHANGED log
       ELSE IF ~wrf_sys.test_dir /\ ~wrf_cfg.dry_run
       THEN /\ raised' = EasyBuildError("Test directory not found, failed to determine list of test cases")
            /\ UNCHANGED log
       ELSE LET tests == WrfTestCases(wrf_cfg, IF wrf_sys.test_dir THEN wrf_sys.listing ELSE <<>>)
            IN  \E res \in [Range(tests) -> WrfOutcomes] :
                    LET r == RunTestCases(wrf_cfg, wrf_sys, tests, res)
                    IN  log' = log \o r.events /\ raised' = r.raised
    /\ wrf_pc' = IF raised'.type = "None" THEN "tested" ELSE "test_failed"
    /\ UNCHANGED <<wrf_cfg, wrf_sys>>

WrfCfgs ==
    [runtest : BOOLEAN, buildtype : {"serial", "dmpar"}, mpi_tests : BOOLEAN, dry_run : BOOLEAN,
     comp_fam : {"Intel", "GCC"}]
WrfHosts ==
    {h \in [test_dir : BOOLEAN,
            listing : {<<>>, <<"em_b_wave">>, <<"em_real", "em_quarter_ss">>,
                       <<"em_hill2d_x", "em_heldsuarez">>, <<"em_scm_xy", "em_fire">>},
            fire_subtests : {<<>>, <<"two_fires">>, <<"hill_simple", "two_fires">>}] :
        /\ ~h.test_dir => h.listing = <<>>
        /\ "em_fire" \notin Range(h.listing) => h.fire_subtests = <<>>}

WrfInit == wrf_pc = "built" /\ wrf_cfg \in WrfCfgs /\ wrf_sys \in WrfHosts

\* ========================================================================
\* EB_Rmpi (r/rmpi.py)
\* ========================================================================
MPI_TYPE_OPENMPI == "MPI_TYPE_OPENMPI"
MPI_TYPE_MPICH == "MPI_TYPE_MPICH"
MPI_TYPE_LAM == "MPI_TYPE_LAM"
INTELMPI == "IntelMPI"
\* mpi_types[self.toolchain.MPI_TYPE]: "" stands for the KeyError of a type
\* that is not a key of the dictionary
RmpiTypeOf(mpi_type) ==
    CASE mpi_type = MPI_TYPE_OPENMPI -> "OPENMPI"
      [] mpi_type = MPI_TYPE_MPICH -> "MPICH"
      [] OTHER -> ""
\* Rmpi versions 0.6-4 and up support INTELMPI
RMPI_INTELMPI_VERSION == <<0, 6, "-", 4>>

\* EB_Rmpi.prepare_rmpi_configureargs. Result: [raised, configureargs]
PrepareRmpiConfigureargs(cfg, current) ==
    LET tc == cfg.toolchain
        rmpi_type == IF LooseVersionGE(cfg.version, RMPI_INTELMPI_VERSION) /\ tc.mpi_family = INTELMPI
                     THEN "INTELMPI" ELSE RmpiTypeOf(tc.MPI_TYPE)
    IN  IF RmpiTypeOf(tc.MPI_TYPE) = ""
        THEN [raised |-> PyError("KeyError"), configureargs |-> current]
        ELSE [raised |-> NoError,
              configureargs |-> <<"--with-Rmpi-include=" \o tc.MPI_INC_DIR,
                                  "--with-Rmpi-libpath=" \o tc.MPI_LIB_DIR,
                                  "--with-mpi=" \o tc.mpi_root,
                                  "--with-Rmpi-type=" \o rmpi_type>>]

\* the entry point of the framework that an entry point of EB_Rmpi delegates
\* to; it installs the extension with self.configureargs
SuperInstallExtension_Unprepared(entry, args) ==
    Event("super", entry, IF entry = "install_extension_async" THEN <<>> ELSE args, {}, 0)
SuperInstallExtension(entry, args) == Event("super", entry, args, {}, 0)

\* what both entry points do: prepare the configure arguments, then delegate
\* to the entry point of the same name of the framework
InstallExtension(entry) ==
    /\ LET r == PrepareRmpiConfigureargs(rmpi_cfg, configureargs)
       IN  /\ configureargs' = r.configureargs
           /\ raised' = r.raised
           /\ log' = IF r.raised = NoError
                     THEN Append(log, SuperInstallExtension(entry, r.configureargs))
                     ELSE log
    /\ rmpi_pc' = IF raised'.type = "None" THEN "installed" ELSE "install_failed"
    /\ UNCHANGED rmpi_cfg

\* EB_Rmpi.install_extension
Rmpi_install_extension ==
    /\ UNCHANGED notRmpi
    /\ rmpi_pc = "init"
    /\ InstallExtension("install_extension")

\* EB_Rmpi.install_extension_async
Rmpi_install_extension_async ==
    /\ UNCHANGED notRmpi
    /\ rmpi_pc = "init"
    /\ InstallExtension("install_extension_async")

RmpiToolchains ==
    {tc \in [MPI_TYPE : {MPI_TYPE_OPENMPI, MPI_TYPE_MPICH, MPI_TYPE_LAM},
             mpi_family : {"OpenMPI", "MPICH", "MVAPICH2", INTELMPI, "LAM"},
             MPI_INC_DIR : {"<mpi>/include", "<mpi>/include64"},
             MPI_LIB_DIR : {"<mpi>/lib", "<mpi>/lib64"},
             mpi_root : {"<mpi>"}] :
        \/ tc.MPI_TYPE = MPI_TYPE_OPENMPI /\ tc.mpi_family = "OpenMPI"
        \/ tc.MPI_TYPE = MPI_TYPE_MPICH /\ tc.mpi_family \in {"MPICH", "MVAPICH2", INTELMPI}
        \/ tc.MPI_TYPE = MPI_TYPE_LAM /\ tc.mpi_family = "LAM"}
RmpiVersions == {<<0, 5, "-", 9>>, <<0, 6, "-", 3>>, <<0, 6, "-", 4>>, <<0, 6, "-", 9>>, <<0, 7, "-", 1>>}

RmpiInit ==
    /\ rmpi_pc = "init"
    /\ rmpi_cfg \in [version : RmpiVersions, toolchain : RmpiToolchains]
    /\ configureargs = <<>>

RmpiIdle == rmpi_pc = "unused" /\ rmpi_cfg = <<>> /\ configureargs = <<>>

\* ========================================================================
\* EB_EasyBuildMeta.install_step (e/easybuildmeta.py)
\* ========================================================================
\* Names of packages and of directories are sequences of tokens, so that
\* str.startswith and str.replace are computed.

StartsWith(x, prefix) ==
    Len(x) >= Len(prefix) /\ SubSeq(x, 1, Len(prefix)) = prefix

\* pkg.replace('-', '_')
PkgNorm(pkg) == [i \in 1..Len(pkg) |-> IF pkg[i] = "-" THEN "_" ELSE pkg[i]]

SETUPTOOLS == <<"setuptools">>
VSC_BASE == <<"vsc", "-", "base">>
VSC_INSTALL == <<"vsc", "-", "install">>
EB_FRAMEWORK == <<"easybuild", "-", "framework">>
EB_EASYBLOCKS == <<"easybuild", "-", "easyblocks">>
EB_EASYCONFIGS == <<"easybuild", "-", "easyconfigs">>
EB_BASE == <<"easybuild", "-", "base">>

\* the name of a source: f'{name}-{version}'
SourceName(name, version) == [name |-> name, version |-> version]

\* f'easybuild-{self.version}'
EasybuildPkgName(version) == SourceName(<<"easybuild">>, version)

\* __init__: the loop over self.cfg['sources']
WithEasybuildPkg(sources, version) ==
    \E i \in 1..Len(sources) : sources[i] = EasybuildPkgName(version)

\* __init__: self.easybuild_pkgs
EasybuildPkgs(version, with_easybuild_pkg) ==
    LET base == <<EB_FRAMEWORK, EB_EASYBLOCKS, EB_EASYCONFIGS>>
    IN  IF LooseVersionGE(version, <<2, 0>>) /\ ~LooseVersionLess(<<3, 999>>, version)
        THEN <<SETUPTOOLS, VSC_INSTALL, VSC_BASE>> \o base \o <<VSC_BASE, VSC_INSTALL>>
        ELSE IF LooseVersionGE(version, <<5, 0>>) /\ with_easybuild_pkg
        THEN base \o <<EB_BASE>>
        ELSE base

Seldirs_DashOnly(subdirs, pkg) == {x \in subdirs : StartsWith(x, pkg)}
\* seldirs = [x for x in subdirs if x.startswith(pkg) or x.startswith(pkg_norm)]
Seldirs(subdirs, pkg) ==
    {x \in subdirs : StartsWith(x, pkg) \/ StartsWith(x, PkgNorm(pkg))}

OptionalPkgs == {SETUPTOOLS, VSC_BASE, VSC_INSTALL}

\* the body of the loop for one package; the installation of the package
\* (PythonPackage.install_step) runs a command and raises when it fails
InstallPkg(subdirs, pkg, exit) ==
    LET seldirs == Seldirs(subdirs, pkg)
    IN  IF Cardinality(seldirs) # 1
        THEN [raised |-> IF pkg \notin OptionalPkgs
                         THEN EasyBuildError("Failed to find required EasyBuild package")
                         ELSE NoError,
              events |-> <<>>]
        ELSE LET dir == CHOOSE x \in seldirs : TRUE
             IN  [raised |-> IF exit = 0 THEN NoError ELSE CmdFailed,
                  events |-> <<Event("change_dir", dir, pkg, {}, 0)>>
                             \o (IF pkg = EB_EASYCONFIGS
                                 THEN <<Event("fix_easyconfigs_setup_py_setuptools61", dir, pkg, {}, 0)>>
                                 ELSE <<>>)
                             \o <<Event("super", "install_step", pkg, {}, exit)>>]

\* for pkg in self.easybuild_pkgs: the package at position failAt is the
\* one whose installation command fails (0: none does)
RECURSIVE InstallPkgs(_, _, _, _)
InstallPkgs(subdirs, pkgs, i, failAt) ==
    IF i > Len(pkgs) THEN [raised |-> NoError, events |-> <<>>]
    ELSE LET first == InstallPkg(subdirs, pkgs[i], IF i = failAt THEN 1 ELSE 0)
         IN  IF first.raised # NoError THEN first
             ELSE LET rest == InstallPkgs(subdirs, pkgs, i + 1, failAt)
                  IN  [raised |-> rest.raised, events |-> first.events \o rest.events]

\* f'easybuild-{self.version}.egg-info'
EggInfo(version) == [name |-> <<"easybuild">>, version |-> version, ext |-> ".egg-info"]

\* EB_EasyBuildMeta.install_step
EBM_install_step ==
    /\ UNCHANGED notEbm
    /\ ebm_pc = "init"
    /\ LET with_easybuild_pkg == WithEasybuildPkg(ebm_cfg.sources, ebm_cfg.version)
           pkgs == EasybuildPkgs(ebm_cfg.version, with_easybuild_pkg)
       IN  \E failAt \in 0..Len(pkgs) :
               LET r == InstallPkgs(ebm_cfg.subdirs, pkgs, 1, failAt)
                   egg == r.raised = NoError /\ ~with_easybuild_pkg
               IN  /\ raised' = r.raised
                   /\ log' = log \o r.events
                             \o (IF egg
                                 THEN <<Event("write_file", EggInfo(ebm_cfg.version), "EGGINFO", {}, 0)>>
                                 ELSE <<>>)
                   /\ ebm_fs' = IF egg THEN ebm_fs \cup {EggInfo(ebm_cfg.version)} ELSE ebm_fs
    /\ ebm_pc' = IF raised'.type = "None" THEN "installed" ELSE "install_failed"
    /\ UNCHANGED ebm_cfg

\* EasyBlock.post_install: nothing more happens to the packages
EBM_finish ==
    /\ UNCHANGED notEbm
    /\ ebm_pc \in {"installed", "install_failed"}
    /\ ebm_pc' = "done"
    /\ UNCHANGED <<log, raised, ebm_cfg, ebm_fs>>

EbmVersions == {<<1, 7>>, <<2, 0>>, <<3, 3, 1>>, <<3, 999>>, <<4, 9, 0>>, <<5, 0, 0>>}

\* the listing of the build directory: unpacked sources
EbmDirs ==
    {<<"setuptools", "-", "V">>,
     <<"vsc", "-", "install", "-", "V">>,
     <<"vsc", "_", "base", "-", "V">>,
     <<"easybuild", "-", "framework", "-", "V">>,
     <<"easybuild", "_", "framework", "-", "V">>,
     <<"easybuild", "-", "easyblocks", "-", "V">>,
     <<"easybuild", "_", "easyconfigs", "-", "V">>,
     <<"easybuild", "_", "base", "-", "V">>}

EbmInit ==
    /\ ebm_pc = "init"
    /\ \E version \in EbmVersions, other \in EbmVersions, subdirs \in SUBSET EbmDirs :
           \E sources \in {<<SourceName(EB_FRAMEWORK, version)>>,
                           <<SourceName(EB_FRAMEWORK, version), EasybuildPkgName(version)>>,
                           <<EasybuildPkgName(other), SourceName(EB_FRAMEWORK, version)>>} :
               ebm_cfg = [version |-> version, sources |-> sources, subdirs |-> subdirs]
    /\ ebm_fs = {}

EbmIdle == ebm_pc = "unused" /\ ebm_cfg = <<>> /\ ebm_fs = {}

\* ========================================================================
\* EB_MPICH (m/mpich.py)
\* ========================================================================
MPICH_ENV_VARS == <<"CFLAGS", "CPPFLAGS", "CXXFLAGS", "FCFLAGS", "FFLAGS", "LDFLAGS", "LIBS">>
MPICH_VARS_TO_UNSET == <<"F90", "F90FLAGS">>
\* 'MPICHLIB_%s' % envvar
MpichLib(envvar) == "MPICHLIB_" \o envvar
MpichEnvNames ==
    Range(MPICH_ENV_VARS) \cup {MpichLib(v) : v \in Range(MPICH_ENV_VARS)} \cup Range(MPICH_VARS_TO_UNSET)

\* the loop of correct_mpich_build_env over env_vars, from position i on.
\* Result: [raised, environ, vars_to_unset]
RECURSIVE CorrectVars(_, _, _)
CorrectVars(i, env, vars_to_unset) ==
    IF i > Len(MPICH_ENV_VARS)
    THEN [raised |-> NoError, environ |-> env, vars_to_unset |-> vars_to_unset]
    ELSE LET envvar == MPICH_ENV_VARS[i]
             envvar_val == env[envvar]
             new_envvar == MpichLib(envvar)
             new_envvar_val == env[new_envvar]
         IN  IF envvar_val \in {Unset, ""}
             THEN CorrectVars(i + 1, env, vars_to_unset)
             ELSE IF envvar_val = new_envvar_val
             THEN CorrectVars(i + 1, env, Append(vars_to_unset, envvar))
             ELSE IF new_envvar_val = Unset
             THEN CorrectVars(i + 1, [env EXCEPT ![new_envvar] = envvar_val],
                              Append(vars_to_unset, envvar))
             ELSE [raised |-> EasyBuildError("Both $X and $MPICHLIB_X set, can I overwrite $MPICHLIB_X with $X ?"),
                   environ |-> env, vars_to_unset |-> Append(vars_to_unset, envvar)]

\* env.unset_env_vars
UnsetEnvVars(env, names) == [n \in DOMAIN env |-> IF n \in Range(names) THEN Unset ELSE env[n]]

CorrectMpichBuildEnv_KeepVars(env) ==
    LET r == CorrectVars(1, env, MPICH_VARS_TO_UNSET)
    IN  [raised |-> r.raised,
         environ |-> IF r.raised = NoError THEN UnsetEnvVars(r.environ, MPICH_VARS_TO_UNSET)
                     ELSE r.environ]
\* EB_MPICH.correct_mpich_build_env. Result: [raised, environ]
CorrectMpichBuildEnv(env) ==
    LET r == CorrectVars(1, env, MPICH_VARS_TO_UNSET)
    IN  [raised |-> r.raised,
         environ |-> IF r.raised = NoError THEN UnsetEnvVars(r.environ, r.vars_to_unset)
                     ELSE r.environ]

MPICH_DEBUGINFO_VERSION == <<4, 0, 0>>
\* EB_MPICH.add_mpich_configopts: the options added to 'configopts'
AddMpichConfigopts(cfg) ==
    (IF cfg.debug
     THEN IF LooseVersionLess(cfg.version, MPICH_DEBUGINFO_VERSION)
          THEN <<"--enable-fast=none">>
          ELSE <<"--enable-error-checking=all", "--enable-timing=runtime", "--enable-debuginfo">>
     ELSE IF LooseVersionLess(cfg.version, MPICH_DEBUGINFO_VERSION)
          THEN <<"--enable-fast">>
          ELSE <<"--enable-error-checking=no", "--enable-timing=none">>)
    \o <<"--enable-shared", "--enable-static", "--enable-fortran=all", "--enable-cxx">>

\* EB_MPICH.configure_step
MPICH_configure_step ==
    /\ UNCHANGED notMpich
    /\ mpich_pc = "init"
    /\ LET made == IF ~mpich_cfg.keeppreviousinstall
                   THEN <<Event("make_dir", INSTALLDIR, "clean", {"dontcreateinstalldir"}, 0)>>
                   ELSE <<>>
           configopts == mpich_cfg.configopts \o AddMpichConfigopts(mpich_cfg)
           r == CorrectMpichBuildEnv(mpich_environ)
       IN  /\ mpich_cfg' = [mpich_cfg EXCEPT !.configopts = configopts]
           /\ mpich_environ' = r.environ
           /\ IF r.raised # NoError
              THEN raised' = r.raised /\ log' = log \o made
              ELSE /\ log' = log \o made \o <<Cmd("./configure", "", Range(configopts), mpich_sys.exit)>>
                   /\ raised' = IF mpich_sys.exit # 0 THEN CmdFailed ELSE NoError
    /\ mpich_pc' = IF raised'.type = "None" THEN "configured" ELSE "configure_failed"
    /\ UNCHANGED mpich_sys

\* ConfigureMake.build_step: make
MPICH_build_step ==
    /\ UNCHANGED notMpich
    /\ mpich_pc = "configured"
    /\ \E exit \in ExitCodes :
        /\ log' = Append(log, Cmd("make", "", {}, exit))
        /\ raised' = IF exit # 0 THEN CmdFailed ELSE NoError
    /\ mpich_pc' = IF raised'.type = "None" THEN "built" ELSE "build_failed"
    /\ UNCHANGED <<mpich_cfg, mpich_sys, mpich_environ>>

\* the environment on entry: CFLAGS and LIBS with their MPICHLIB_ variables
\* take every combination, the five other variables share one of three
MpichFlagValues == {Unset, "", "-O2"}
MpichLibValues == {Unset, "-O2", "-g"}
MpichEnvirons ==
    {[n \in MpichEnvNames |->
        CASE n = "CFLAGS" -> c
          [] n = MpichLib("CFLAGS") -> mc
          [] n = "LIBS" -> l
          [] n = MpichLib("LIBS") -> ml
          [] n = "F90" -> f90
          [] n = "F90FLAGS" -> f90flags
          [] n \in {"CPPFLAGS", "CXXFLAGS", "FCFLAGS", "FFLAGS", "LDFLAGS"} -> o[1]
          [] OTHER -> o[2]] :
     c \in MpichFlagValues, mc \in MpichLibValues, l \in MpichFlagValues, ml \in MpichLibValues,
     f90 \in {Unset, "gfortran"}, f90flags \in {Unset, "-O2"},
     o \in {<<Unset, Unset>>, <<"-O2", "-O2">>, <<"-O2", "-g">>}}

MpichInit ==
    /\ mpich_pc = "init"
    /\ mpich_cfg \in [debug : BOOLEAN, version : {<<3, 4, 2>>, <<4, 0, 0>>},
                      keeppreviousinstall : BOOLEAN, configopts : {<<>>}]
    /\ mpich_sys \in [environ : MpichEnvirons, exit : ExitCodes]
    /\ mpich_environ = mpich_sys.environ

MpichIdle ==
    /\ mpich_pc = "unused"
    /\ mpich_cfg = <<>>
    /\ mpich_sys = <<>>
    /\ mpich_environ = <<>>

\* ========================================================================
\* EB_MCR (m/mcr.py)
\* ========================================================================
\* A release is LooseVersion('R2022b') = ['R', 2022, 'b']; the letters are
\* written as their character codes, which is how Python orders them.
McrRelease(year, letter) == <<82, year, CASE letter = "a" -> 97 [] letter = "b" -> 98>>
MCR_COPY_INPUT_VERSION == McrRelease(2015, "a")
MCR_NO_MODE_VERSION == McrRelease(2024, "a")
MCR_CEFCLIENT_VERSION == McrRelease(2016, "b")
MCR_RELEASE_SUBDIR_VERSION == McrRelease(2022, "b")

\* names of directories are sequences of characters
Digits == {"0", "1", "2", "3", "4", "5", "6", "7", "8", "9"}
\* fnmatch with the character class [0-9] and '*'
RECURSIVE FnMatchDigits(_, _)
FnMatchDigits(pattern, name) ==
    IF pattern = <<>> THEN name = <<>>
    ELSE IF pattern[1] = "*"
    THEN FnMatchDigits(Tail(pattern), name) \/ (name # <<>> /\ FnMatchDigits(pattern, Tail(name)))
    ELSE IF pattern[1] = "[0-9]"
    THEN name # <<>> /\ name[1] \in Digits /\ FnMatchDigits(Tail(pattern), Tail(name))
    ELSE name # <<>> /\ name[1] = pattern[1] /\ FnMatchDigits(Tail(pattern), Tail(name))

MCR_V_PATTERN == <<"v", "[0-9]", "[0-9]", "*">>
MCR_R_PATTERN == <<"R", "[0-9]", "[0-9]", "[0-9]", "[0-9]", "*">>

\* self.subdir: None, a string or the list glob.glob returned
SubdirNone == [kind |-> "None", name |-> <<>>, list |-> {}]
SubdirStr(name) == [kind |-> "str", name |-> name, list |-> {}]
SubdirList(names) == [kind |-> "list", name |-> <<>>, list |-> names]
NOTFOUND == <<"N", "O", "T", "F", "O", "U", "N", "D">>

SetSubdir_Always(subdir, version, listing) ==
    LET subdirs == IF LooseVersionLess(version, MCR_RELEASE_SUBDIR_VERSION)
                   THEN {d \in listing : FnMatchDigits(MCR_V_PATTERN, d)}
                   ELSE {d \in listing : FnMatchDigits(MCR_R_PATTERN, d)}
    IN  IF Cardinality(subdirs) = 1 THEN SubdirStr(CHOOSE d \in subdirs : TRUE)
        ELSE SubdirList(subdirs)
\* EB_MCR.set_subdir: the value of self.subdir after the call
SetSubdir(subdir, version, listing) ==
    IF subdir.kind = "None"
    THEN LET subdirs == IF LooseVersionLess(version, MCR_RELEASE_SUBDIR_VERSION)
                        THEN {d \in listing : FnMatchDigits(MCR_V_PATTERN, d)}
                        ELSE {d \in listing : FnMatchDigits(MCR_R_PATTERN, d)}
         IN  IF Cardinality(subdirs) = 1 THEN SubdirStr(CHOOSE d \in subdirs : TRUE)
             ELSE SubdirList(subdirs)
    ELSE subdir

\* EB_MCR.configure_step: the lines written to my_installer_input.txt
McrConfig(version) ==
    IF LooseVersionLess(version, MCR_COPY_INPUT_VERSION)
    THEN <<"<installer_input.txt>", "destinationFolder=" \o INSTALLDIR, "agreeToLicense=Yes", "mode=silent">>
    ELSE IF LooseVersionLess(version, MCR_NO_MODE_VERSION)
    THEN <<"destinationFolder=" \o INSTALLDIR, "agreeToLicense=Yes", "mode=silent">>
    ELSE <<"destinationFolder=" \o INSTALLDIR, "agreeToLicense=yes">>

MCR_configure_step ==
    /\ UNCHANGED notMcr
    /\ mcr_pc = "init"
    /\ log' = Append(log, Event("write_file", "my_installer_input.txt", McrConfig(mcr_cfg.version), {}, 0))
    /\ raised' = NoError
    /\ mcr_pc' = "configured"
    /\ UNCHANGED <<mcr_cfg, mcr_sys, mcr_subdir, mcr_calls>>

\* EB_MCR.install_step
MCR_install_step ==
    /\ UNCHANGED notMcr
    /\ mcr_pc = "configured"
    /\ \E exit \in ExitCodes :
        /\ log' = log \o <<Event("adjust_permissions", "install", "S_IXUSR", {}, 0),
                           Cmd("./install", "my_installer_input.txt",
                               {"export _JAVA_OPTIONS", "-v", "-inputFile"}, exit)>>
        /\ raised' = IF exit # 0 THEN CmdFailed ELSE NoError
    /\ mcr_pc' = IF raised'.type = "None" THEN "installed" ELSE "install_failed"
    /\ UNCHANGED <<mcr_cfg, mcr_sys, mcr_subdir, mcr_calls>>

\* the directories that the sanity check wants below self.subdir
McrCustomDirs(version) ==
    IF LooseVersionGE(version, MCR_CEFCLIENT_VERSION)
    THEN {"bin/glnxa64", "cefclient/sys/os/glnxa64"}
    ELSE {"bin/glnxa64", "runtime/glnxa64", "sys/os/glnxa64"}

\* EB_MCR.sanity_check_step; the sanity check of the framework fails when a
\* directory of custom_paths is missing
MCR_sanity_check_step ==
    /\ UNCHANGED notMcr
    /\ mcr_pc = "installed"
    /\ Len(mcr_calls) < MaxCalls
    /\ mcr_calls' = Append(mcr_calls, "sanity_check_step")
    /\ mcr_subdir' = SetSubdir(mcr_subdir, mcr_cfg.version, mcr_sys.listing)
    /\ IF mcr_subdir'.kind # "str"
       THEN /\ raised' = EasyBuildError("Could not identify which subdirectory to pick")
            /\ UNCHANGED log
       ELSE LET ok == mcr_subdir'.name \in mcr_sys.listing /\ mcr_sys.complete
            IN  /\ log' = Append(log, Event("sanity_check", mcr_subdir'.name,
                                            McrCustomDirs(mcr_cfg.version), {}, IF ok THEN 0 ELSE 1))
                /\ raised' = IF ok THEN NoError ELSE EasyBuildError("Sanity check failed")
    /\ mcr_pc' = IF raised'.type = "None" THEN "installed" ELSE "sanity_check_failed"
    /\ UNCHANGED <<mcr_cfg, mcr_sys>>

\* EB_MCR.make_module_extra
MCR_make_module_extra ==
    /\ UNCHANGED notMcr
    /\ mcr_pc = "installed"
    /\ Len(mcr_calls) < MaxCalls
    /\ mcr_calls' = Append(mcr_calls, "make_module_extra")
    /\ LET set == SetSubdir(mcr_subdir, mcr_cfg.version, mcr_sys.listing)
       IN  mcr_subdir' = IF set.kind # "str" THEN SubdirStr(NOTFOUND) ELSE set
    /\ log' = log \o <<Event("set_environment", "XAPPLRESDIR", mcr_subdir'.name, {}, 0),
                       Event("prepend_paths", "LD_LIBRARY_PATH", mcr_subdir'.name,
                             {"runtime/glnxa64", "bin/glnxa64", "sys/os/glnxa64"}, 0),
                       Event("set_environment", "_JAVA_OPTIONS", "-Xmx256m", {}, 0),
                       Event("set_environment", "MCRROOT", mcr_subdir'.name, {}, 0)>>
    /\ raised' = NoError
    /\ UNCHANGED <<mcr_pc, mcr_cfg, mcr_sys>>

McrVersions == {McrRelease(2014, "a"), McrRelease(2016, "b"), McrRelease(2022, "a"),
                McrRelease(2022, "b"), McrRelease(2024, "a")}
McrDirs ==
    {<<"v", "8", "4">>, <<"v", "9", "1", "0">>, <<"v", "9">>, <<"R", "2", "0", "2", "3", "a">>,
     <<"R", "2", "0", "2", "4", "a">>, <<"b", "i", "n">>}

\* an installation from the sources, or the steps after the installation
\* alone (--module-only) on whatever the installation directory holds
McrInit ==
    /\ mcr_pc \in {"init", "installed"}
    /\ mcr_cfg \in [version : McrVersions]
    /\ mcr_sys \in [listing : SUBSET McrDirs, complete : BOOLEAN]
    /\ mcr_subdir = SubdirNone
    /\ mcr_calls = <<>>

McrIdle ==
    /\ mcr_pc = "unused"
    /\ mcr_cfg = <<>>
    /\ mcr_sys = <<>>
    /\ mcr_subdir = <<>>
    /\ mcr_calls = <<>>

\* ========================================================================
\* EB_MUMPS (m/mumps.py)
\* ========================================================================
INTELCOMP == "Intel"
GCC == "GCC"
MUMPS_DEBIAN_VERSION == <<5, 0, 0>>
START_DIR == "<start_dir>"

\* self.toolchain.options.get(name, None): True, False or None
OptionSet(opt) == opt = "True"

\* self.toolchain.get_flag('openmp')
OpenmpFlag(comp_fam) == IF comp_fam = INTELCOMP THEN "-qopenmp" ELSE "-fopenmp"

MakeIncSuff(cfg) == IF OptionSet(cfg.usempi) THEN "PAR" ELSE "SEQ"

\* the Makefile.inc template: make_inc_templ % make_inc_suff ("" when the
\* compiler family is not known)
MakeIncTempl_GccVersion(cfg) ==
    IF cfg.comp_family = INTELCOMP THEN "Makefile.INTEL." \o MakeIncSuff(cfg)
    ELSE IF cfg.comp_family = GCC
    THEN IF LooseVersionGE(cfg.comp_version, MUMPS_DEBIAN_VERSION)
         THEN "Makefile.debian." \o MakeIncSuff(cfg)
         ELSE "Makefile.gfortran." \o MakeIncSuff(cfg)
    ELSE ""
MakeIncTempl(cfg) ==
    IF cfg.comp_family = INTELCOMP THEN "Makefile.INTEL." \o MakeIncSuff(cfg)
    ELSE IF cfg.comp_family = GCC
    THEN IF LooseVersionGE(cfg.version, MUMPS_DEBIAN_VERSION)
         THEN "Makefile.debian." \o MakeIncSuff(cfg)
         ELSE "Makefile.gfortran." \o MakeIncSuff(cfg)
    ELSE ""

MumpsOptf(cfg) ==
    IF cfg.comp_family = INTELCOMP THEN "-Dintel_ -DALLOW_NON_INIT -nofor-main" ELSE "-DALLOW_NON_INIT"
MumpsOptl(cfg) ==
    LET optl == IF OptionSet(cfg.openmp) THEN OpenmpFlag(cfg.comp_family) ELSE ""
    IN  IF cfg.comp_family = INTELCOMP THEN optl \o " -nofor-main" ELSE optl

Opt(key, val) == [key |-> key, val |-> val]
Lmpiseq == "-L$LAPACK_LIB_DIR $LIBLAPACK -L" \o START_DIR \o "/libseq -lmpiseq"

\* mumps_make_opts, in the order of the dictionary
MumpsMakeOpts(cfg) ==
    LET seq == MakeIncSuff(cfg) = "SEQ"
        par == cfg.parmetis
        lmetisdir == IF par THEN "$EBROOTPARMETIS" ELSE "$EBROOTMETIS"
        lmetis == IF par THEN "-L$EBROOTPARMETIS -lparmetis -lmetis" ELSE "-L$EBROOTMETIS -lmetis"
        dmetis == IF par THEN "-Dparmetis" ELSE "-Dmetis"
        optl == MumpsOptl(cfg)
    IN  <<Opt("SCOTCHDIR", "$EBROOTSCOTCH"),
          Opt("LSCOTCH", IF seq THEN "-L$EBROOTSCOTCH/lib -lesmumps -lscotch -lscotcherr"
                         ELSE "-L$EBROOTSCOTCH/lib -lptesmumps -lptscotch -lptscotcherr -lesmumps -lscotch -lscotcherr"),
          Opt("ISCOTCH", "-I$EBROOTSCOTCH/include"),
          Opt("LMETISDIR", lmetisdir),
          Opt("LMETIS", lmetis),
          Opt("IMETIS", "-I" \o lmetisdir \o "/include"),
          Opt("ORDERINGSF", (IF seq THEN "-Dpord -Dscotch " ELSE "-Dpord -Dptscotch ") \o dmetis),
          Opt("CC", IF seq THEN "$CC" ELSE "$MPICC"),
          Opt("FC", IF seq THEN "$F77" ELSE "$MPIF77"),
          Opt("FL", IF seq THEN "$F77" ELSE "$MPIF77"),
          Opt("SCALAP", IF seq THEN "" ELSE "-L$SCALAPACK_LIB_DIR $LIBSCALAPACK"),
          Opt("INCPAR", ""),
          Opt("LIBPAR", IF seq THEN "" ELSE "-L$SCALAPACK_LIB_DIR $LIBSCALAPACK"),
          Opt("INCSEQ", IF seq THEN "-I" \o START_DIR \o "/libseq" ELSE ""),
          Opt("LIBSEQ", IF seq THEN Lmpiseq ELSE ""),
          Opt("LIBBLAS", "-L$BLAS_LIB_DIR $LIBBLAS"),
          Opt("LIBOTHERS", "$LIBS"),
          Opt("OPTF", "$FFLAGS " \o MumpsOptf(cfg)),
          Opt("OPTL", "$LDFLAGS " \o (IF seq THEN optl \o " " \o Lmpiseq ELSE optl)),
          Opt("OPTC", "$CFLAGS")>>

\* EB_MUMPS.configure_step
MUMPS_configure_step ==
    /\ UNCHANGED notMumps
    /\ mumps_pc = "init"
    /\ LET templ == MakeIncTempl(mumps_cfg)
       IN  IF templ = ""
           THEN /\ raised' = EasyBuildError("Unknown compiler family, don't know how to prepare for building with specified toolchain.")
                /\ UNCHANGED <<log, mumps_makefile, mumps_buildopts>>
           ELSE IF ~mumps_cfg.templates
           THEN /\ raised' = EasyBuildError("Copying Makefile.inc to builddir failed")
                /\ UNCHANGED <<log, mumps_makefile, mumps_buildopts>>
           ELSE /\ mumps_makefile' = templ
                /\ log' = Append(log, Event("copy2", "Make.inc/" \o templ, "Makefile.inc", {}, 0))
                /\ IF ~mumps_cfg.scotch
                   THEN /\ raised' = EasyBuildError("SCOTCH dependency not available.")
                        /\ UNCHANGED mumps_buildopts
                   ELSE IF ~mumps_cfg.parmetis /\ ~mumps_cfg.metis
                   THEN /\ raised' = EasyBuildError("METIS or ParMETIS must be available as dependency.")
                        /\ UNCHANGED mumps_buildopts
                   ELSE /\ raised' = NoError
                        /\ mumps_buildopts' = mumps_buildopts \o MumpsMakeOpts(mumps_cfg)
    /\ mumps_pc' = IF raised'.type = "None" THEN "configured" ELSE "configure_failed"
    /\ UNCHANGED mumps_cfg

\* ConfigureMake.build_step: make with 'buildopts'
MUMPS_build_step ==
    /\ UNCHANGED notMumps
    /\ mumps_pc = "configured"
    /\ \E exit \in ExitCodes :
        /\ log' = Append(log, Cmd("make", mumps_makefile, {}, exit))
        /\ raised' = IF exit # 0 THEN CmdFailed ELSE NoError
    /\ mumps_pc' = IF raised'.type = "None" THEN "built" ELSE "build_failed"
    /\ UNCHANGED <<mumps_cfg, mumps_makefile, mumps_buildopts>>

\* EB_MUMPS.install_step
MUMPS_install_step ==
    /\ UNCHANGED notMumps
    /\ mumps_pc = "built"
    /\ log' = log \o <<Event("copytree", "include", INSTALLDIR, {}, 0),
                       Event("copytree", "lib", INSTALLDIR, {}, 0),
                       Event("copytree", "doc", INSTALLDIR, {}, 0)>>
                  \o (IF mumps_cfg.usempi = "False"
                      THEN <<Event("copy2", "libseq/libmpiseq.a", INSTALLDIR, {}, 0)>>
                      ELSE <<>>)
    /\ raised' = NoError
    /\ mumps_pc' = "installed"
    /\ UNCHANGED <<mumps_cfg, mumps_makefile, mumps_buildopts>>

MumpsCfgs ==
    [version : {<<4, 10, 0>>, <<5, 0, 0>>, <<5, 6, 1>>},
     usempi : {"True", "False", "None"},
     openmp : {"True", "None"},
     comp_family : {INTELCOMP, GCC, "PGI"},
     comp_version : {<<4, 9, 3>>, <<12, 3, 0>>},
     scotch : BOOLEAN, metis : BOOLEAN, parmetis : BOOLEAN,
     templates : BOOLEAN]

MumpsInit ==
    /\ mumps_pc = "init"
    /\ mumps_cfg \in MumpsCfgs
    /\ mumps_makefile = ""
    /\ mumps_buildopts = <<>>

MumpsIdle ==
    /\ mumps_pc = "unused"
    /\ mumps_cfg = <<>>
    /\ mumps_makefile = ""
    /\ mumps_buildopts = <<>>

\* ========================================================================
\* EB_MXNet (m/mxnet.py)
\* ========================================================================
\* self.toolchain.definition(): the entry for 'BLAS' is missing, None or a
\* list of names
NoKey == [kind |-> "missing", list |-> <<>>]
PyNone == [kind |-> "None", list |-> <<>>]
PyList(l) == [kind |-> "list", list |-> l]

\* '%s' % value, for a string or None
PyStr(v) == IF v = Unset THEN "None" ELSE v

IMKL_MKL2017_VERSION == <<17>>

\* self.toolchain.definition().get('BLAS', None)[0].
\* Result: [raised, value] (value "" where nothing is returned)
ToolchainBlas(definition) ==
    IF definition.kind \in {"missing", "None"} THEN [raised |-> PyError("TypeError"), value |-> ""]
    ELSE IF definition.list = <<>> THEN [raised |-> PyError("IndexError"), value |-> ""]
    ELSE [raised |-> NoError, value |-> definition.list[1]]

\* the value of 'blas' after the if/elif chain ("" when no branch assigns it)
BlasOf(toolchain_blas) ==
    CASE toolchain_blas = "imkl" -> "mkl"
      [] toolchain_blas \in {"ACML", "ATLAS"} -> "atlas"
      [] toolchain_blas = "OpenBLAS" -> "openblas"
      [] toolchain_blas = "FlexiBLAS" -> "flexiblas"
      [] OTHER -> ""

BuildOpt(key, val) == [key |-> key, val |-> val]

\* EB_MXNet.configure_step
MXNet_configure_step ==
    /\ UNCHANGED notMxnet
    /\ mxnet_pc = "init"
    /\ LET compilers == <<BuildOpt("CC", PyStr(mxnet_environ["CC"])),
                          BuildOpt("CXX", PyStr(mxnet_environ["CXX"])),
                          BuildOpt("ADD_CFLAGS", PyStr(mxnet_environ["CFLAGS"])),
                          BuildOpt("ADD_LDFLAGS", PyStr(mxnet_environ["LDFLAGS"]))>>
           tc == ToolchainBlas(mxnet_cfg.blas)
           blas == BlasOf(tc.value)
           mkl == IF tc.value = "imkl"
                  THEN (IF LooseVersionGE(mxnet_cfg.imkl_version, IMKL_MKL2017_VERSION)
                        THEN <<BuildOpt("USE_MKL2017", "1")>> ELSE <<>>)
                       \o <<BuildOpt("MKLML_ROOT", PyStr(mxnet_environ["MKLROOT"]))>>
                  ELSE <<>>
       IN  IF tc.raised # NoError
           THEN /\ raised' = tc.raised
                /\ mxnet_buildopts' = mxnet_buildopts \o compilers
                /\ UNCHANGED mxnet_environ
           ELSE IF tc.value = None
           THEN \* elif toolchain_blas is None: the first name of the list is None
                /\ raised' = EasyBuildError("No BLAS library found in the toolchain")
                /\ mxnet_buildopts' = mxnet_buildopts \o compilers
                /\ UNCHANGED mxnet_environ
           ELSE IF blas = ""
           THEN \* no branch of the chain was taken: 'blas' is not bound
                /\ raised' = PyError("UnboundLocalError")
                /\ mxnet_buildopts' = mxnet_buildopts \o compilers
                /\ UNCHANGED mxnet_environ
           ELSE /\ raised' = NoError
                /\ mxnet_environ' =
                       IF tc.value = "FlexiBLAS"
                       THEN [mxnet_environ EXCEPT !["CFLAGS"] = PyStr(@) \o " -lflexiblas"]
                       ELSE mxnet_environ
                /\ mxnet_buildopts' = mxnet_buildopts \o compilers \o mkl
                                        \o <<BuildOpt("USE_BLAS", blas)>>
                                        \o (IF mxnet_cfg.nnpack THEN <<BuildOpt("USE_NNPACK", "1")>> ELSE <<>>)
    /\ mxnet_pc' = IF raised'.type = "None" THEN "configured" ELSE "configure_failed"
    /\ UNCHANGED <<log, mxnet_cfg>>

\* MakeCp.build_step: make with 'buildopts'
MXNet_build_step ==
    /\ UNCHANGED notMxnet
    /\ mxnet_pc = "configured"
    /\ \E exit \in ExitCodes :
        /\ log' = Append(log, Cmd("make", "", {o.key : o \in Range(mxnet_buildopts)}, exit))
        /\ raised' = IF exit # 0 THEN CmdFailed ELSE NoError
    /\ mxnet_pc' = IF raised'.type = "None" THEN "built" ELSE "build_failed"
    /\ UNCHANGED <<mxnet_cfg, mxnet_environ, mxnet_buildopts>>

MxnetEnvNames == {"CC", "CXX", "CFLAGS", "LDFLAGS", "MKLROOT"}
MxnetCfgs ==
    [blas : {NoKey, PyNone, PyList(<<>>), PyList(<<"imkl">>), PyList(<<"ACML">>), PyList(<<"ATLAS">>),
             PyList(<<"OpenBLAS">>), PyList(<<"FlexiBLAS">>), PyList(<<"BLIS">>),
             PyList(<<"FlexiBLAS", "OpenBLAS">>)},
     imkl_version : {<<11, 3, 3>>, <<17>>, <<2021, 4, 0>>},
     nnpack : BOOLEAN]

MxnetInit ==
    /\ mxnet_pc = "init"
    /\ mxnet_cfg \in MxnetCfgs
    /\ \E cflags \in {Unset, "-O2"}, mklroot \in {Unset, "/opt/imkl"} :
           mxnet_environ = [n \in MxnetEnvNames |->
                               CASE n = "CC" -> "gcc"
                                 [] n = "CXX" -> "g++"
                                 [] n = "CFLAGS" -> cflags
                                 [] n = "MKLROOT" -> mklroot
                                 [] OTHER -> Unset]
    /\ mxnet_buildopts = <<>>

MxnetIdle ==
    /\ mxnet_pc = "unused"
    /\ mxnet_cfg = <<>>
    /\ mxnet_environ = <<>>
    /\ mxnet_buildopts = <<>>

\* ========================================================================
\* Specifications: one easyblock is instantiated and taken through its steps
\* ========================================================================
SharedInit == log = <<>> /\ raised = NoError

\* ---- Rpm
RpmNext ==
    \/ Rpm_configure_step
    \/ Rpm_install_step

InitRpm == SharedInit /\ MxnetIdle /\ MumpsIdle /\ McrIdle /\ MpichIdle /\ EbmIdle /\ RmpiIdle /\ RpmInit /\ IntelIdle /\ OthersIdle
SpecRpm == InitRpm /\ [][RpmNext]_vars

\* ---- IntelBase
IntelNext ==
    \/ Intel_prepare_step
    \/ Intel_configure_step
    \/ Intel_install_step
    \/ Intel_cleanup_step

\* license resolution and silent.cfg: all license settings, classic versions
IntelLicenseCfgs ==
    {c \in IntelCfgs :
        /\ c.version \in {<<2016, 3, 210>>, <<2020, 4, 304>>}
        /\ c.src = <<"l_installer_offline.sh">>
        /\ c.components \in {NoList, List(<<"mkl">>)}}
IntelLicenseHosts ==
    {h \in IntelHosts : h.eula_accepted /\ h.mediaconfig /\ h.home = "absent" /\ ~h.local}
InitIntelLicense == SharedInit /\ MxnetIdle /\ MumpsIdle /\ McrIdle /\ MpichIdle /\ EbmIdle /\ RmpiIdle /\ RpmIdle /\ IntelInit(IntelLicenseCfgs, IntelLicenseHosts) /\ OthersIdle
SpecIntelLicense == InitIntelLicense /\ [][IntelNext]_vars

\* choice of installer: all versions, source lists and components
IntelInstallCfgs ==
    {c \in IntelCfgs :
        /\ c.requires_runtime_license
        /\ c.license_file = <<"27009@licsrv">>
        /\ c.license_activation \in {ACTIVATION_LIC_SERVER, ACTIVATION_TRIAL}}
IntelInstallHosts ==
    {h \in IntelHosts :
        /\ h.env_intel = <<>> /\ h.env_lm = <<>> /\ h.valid = LicenseSpecs
        /\ h.home \in {"absent", "dir"} /\ h.local}
InitIntelInstall == SharedInit /\ MxnetIdle /\ MumpsIdle /\ McrIdle /\ MpichIdle /\ EbmIdle /\ RmpiIdle /\ RpmIdle /\ IntelInit(IntelInstallCfgs, IntelInstallHosts) /\ OthersIdle
SpecIntelInstall == InitIntelInstall /\ [][IntelNext]_vars

\* ---- two IntelBase installs at the same time
ParNext ==
    \/ \E p \in Installs : Par_configure_step(p)
    \/ \E p \in Installs : Par_install_step_begin(p)
    \/ \E p \in Installs : Par_install_step_end(p)
    \/ \E p \in Installs : Par_cleanup_step(p)

InitIntelPar == SharedInit /\ MxnetIdle /\ MumpsIdle /\ McrIdle /\ MpichIdle /\ EbmIdle /\ RmpiIdle /\ RpmIdle /\ IntelIdle /\ ParInit /\ MapleIdle /\ EbIdle /\ NclIdle /\ HadoopIdle /\ WrfIdle
SpecIntelPar == InitIntelPar /\ [][ParNext]_vars

\* ---- EB_Maple
MapleNext == Maple_install_step

InitMaple == SharedInit /\ MxnetIdle /\ MumpsIdle /\ McrIdle /\ MpichIdle /\ EbmIdle /\ RmpiIdle /\ RpmIdle /\ IntelIdle /\ ParIdle /\ MapleInit /\ EbIdle /\ NclIdle /\ HadoopIdle /\ WrfIdle
SpecMaple == InitMaple /\ [][MapleNext]_vars

\* ---- EB_EasyBuildMeta: the steps in any order
EbNext ==
    \/ EB_sanity_check_step
    \/ EB_make_module_step

InitEb == SharedInit /\ MxnetIdle /\ MumpsIdle /\ McrIdle /\ MpichIdle /\ EbmIdle /\ RmpiIdle /\ RpmIdle /\ IntelIdle /\ ParIdle /\ MapleIdle /\ EbInit /\ NclIdle /\ HadoopIdle /\ WrfIdle
SpecEb == InitEb /\ [][EbNext]_vars

\* ---- the steps of one adapter (Rpm, EB_NCL, EB_Hadoop or EB_WRF)
StepsNext ==
    \/ Rpm_configure_step
    \/ Rpm_install_step
    \/ NCL_configure_step
    \/ Hadoop_build_step
    \/ Hadoop_install_step
    \/ Hadoop_post_processing_step
    \/ Hadoop_sanity_check_step
    \/ WRF_test_step

InitSteps ==
    /\ SharedInit /\ MxnetIdle /\ MumpsIdle /\ McrIdle /\ MpichIdle /\ EbmIdle /\ RmpiIdle /\ IntelIdle /\ ParIdle /\ MapleIdle /\ EbIdle
    /\ \/ RpmInit /\ NclIdle /\ HadoopIdle /\ WrfIdle
       \/ RpmIdle /\ NclInit /\ HadoopIdle /\ WrfIdle
       \/ RpmIdle /\ NclIdle /\ HadoopInit /\ WrfIdle
       \/ RpmIdle /\ NclIdle /\ HadoopIdle /\ WrfInit
SpecSteps == InitSteps /\ [][StepsNext]_vars

\* ---- EB_Rmpi
RmpiNext ==
    \/ Rmpi_install_extension
    \/ Rmpi_install_extension_async

InitRmpi == SharedInit /\ MxnetIdle /\ MumpsIdle /\ McrIdle /\ MpichIdle /\ EbmIdle /\ RpmIdle /\ IntelIdle /\ OthersIdle /\ RmpiInit
SpecRmpi == InitRmpi /\ [][RmpiNext]_vars

EbmNext ==
    \/ EBM_install_step
    \/ EBM_finish

InitEbm == SharedInit /\ MxnetIdle /\ MumpsIdle /\ McrIdle /\ MpichIdle /\ RpmIdle /\ IntelIdle /\ OthersIdle /\ RmpiIdle /\ EbmInit
SpecEbm == InitEbm /\ [][EbmNext]_vars

\* $HOME/intel and the local cache directory: every state they can be in
IntelHomeCfgs ==
    {c \in IntelInstallCfgs :
        /\ c.license_activation = ACTIVATION_LIC_SERVER
        /\ c.serial_number = None
        /\ Len(c.src) = 1}
IntelHomeHosts ==
    {h \in IntelHosts :
        /\ h.env_intel = <<>> /\ h.env_lm = <<>> /\ h.valid = LicenseSpecs
        /\ h.eula_accepted}
InitIntelHome == SharedInit /\ MxnetIdle /\ MumpsIdle /\ McrIdle /\ MpichIdle /\ EbmIdle /\ RmpiIdle /\ RpmIdle /\ IntelInit(IntelHomeCfgs, IntelHomeHosts) /\ OthersIdle
SpecIntelHome == InitIntelHome /\ [][IntelNext]_vars

MpichNext ==
    \/ MPICH_configure_step
    \/ MPICH_build_step

InitMpich == SharedInit /\ MxnetIdle /\ MumpsIdle /\ McrIdle /\ RpmIdle /\ IntelIdle /\ OthersIdle /\ RmpiIdle /\ EbmIdle /\ MpichInit
SpecMpich == InitMpich /\ [][MpichNext]_vars

McrNext ==
    \/ MCR_configure_step
    \/ MCR_install_step
    \/ MCR_sanity_check_step
    \/ MCR_make_module_extra

InitMcr == SharedInit /\ MxnetIdle /\ MumpsIdle /\ RpmIdle /\ IntelIdle /\ OthersIdle /\ RmpiIdle /\ EbmIdle /\ MpichIdle /\ McrInit
SpecMcr == InitMcr /\ [][McrNext]_vars

MumpsNext ==
    \/ MUMPS_configure_step
    \/ MUMPS_build_step
    \/ MUMPS_install_step

InitMumps == SharedInit /\ MxnetIdle /\ RpmIdle /\ IntelIdle /\ OthersIdle /\ RmpiIdle /\ EbmIdle /\ MpichIdle /\ McrIdle /\ MumpsInit
SpecMumps == InitMumps /\ [][MumpsNext]_vars

MxnetNext ==
    \/ MXNet_configure_step
    \/ MXNet_build_step

InitMxnet == SharedInit /\ RpmIdle /\ IntelIdle /\ OthersIdle /\ RmpiIdle /\ EbmIdle /\ MpichIdle /\ McrIdle /\ MumpsIdle /\ MxnetInit
SpecMxnet == InitMxnet /\ [][MxnetNext]_vars

\* ========================================================================
\* Claims
\* ========================================================================
\* ------------------------------------------------------------------------
\* Claims about Rpm
\* ------------------------------------------------------------------------
\* the entries of the log that satisfy Test, in order
Where(events, Test(_)) == SelectSeq(events, Test)
IsRebuild(e) == e.op = "run_shell_cmd" /\ e.what = "rpmrebuild"
IsRpmInstall(e) == e.op = "run_shell_cmd" /\ e.what = "rpm -i"
IsInitDb(e) == e.op = "run_shell_cmd" /\ e.what = "rpm --initdb"
IsSymlink(e) == e.op = "symlink"
Positions(events, Test(_)) == {i \in 1..Len(events) : Test(events[i])}

\* 'rpm --version' was run, returned 0 and printed a version
RpmVersionReported ==
    /\ rpm_sys.which_rpm
    /\ Len(log) >= 1 /\ log[1].what = "rpm --version" /\ log[1].exit = 0
    /\ rpm_sys.version_output # NoVersion

\* version v is 4.8.0 or newer, component by component
AtLeast480(v) ==
    /\ Len(v) >= 1
    /\ \/ v[1] > 4
       \/ /\ v[1] = 4
          /\ Len(v) >= 2
          /\ (v[2] > 8 \/ (v[2] = 8 /\ Len(v) >= 3))

RpmConfigured == rpm_pc \in {"configured", "installed", "install_failed"}
RpmOriginalSrc == [i \in 1..Len(rpm_cfg.sources) |-> SrcEntry(rpm_cfg.sources[i])]

\* C7: Rpm.configure_step enables rebuilding iff 'rpm --version' reports
\* 4.8.0 or newer; when enabled every source RPM is rebuilt (one successful
\* rpmrebuild per source, before any 'rpm -i'), self.src becomes the rebuilt
\* RPMs and self.oldsrc the original list; when not enabled self.src is left
\* unchanged; without an 'rpm' command the step fails with the build error
\* and runs no command.
C7_RebuildDecision ==
    rpm_pc # "init" =>
        /\ rebuild_rpm <=> (RpmVersionReported /\ AtLeast480(rpm_sys.version_output))
        /\ ~rpm_sys.which_rpm =>
              /\ rpm_pc = "configure_failed"
              /\ raised.type = "EasyBuildError"
              /\ log = <<>>
        /\ (RpmConfigured /\ rebuild_rpm) =>
              /\ oldsrc = RpmOriginalSrc
              /\ Where(log, IsRebuild) = [i \in 1..Len(oldsrc) |-> RebuildCmd(oldsrc[i])]
              /\ Len(src) = Len(oldsrc)
              /\ {src[i].name : i \in 1..Len(src)} = {oldsrc[i].name : i \in 1..Len(oldsrc)}
              /\ \A i \in 1..Len(src) : src[i].path = "<builddir>/x86_64/" \o src[i].name
              /\ \A i \in Positions(log, IsRebuild), j \in Positions(log, IsRpmInstall) : i < j
        /\ (RpmConfigured /\ ~rebuild_rpm) =>
              /\ src = RpmOriginalSrc
              /\ Where(log, IsRebuild) = <<>>

C7_Witness ==
    /\ rpm_pc = "installed"
    /\ rebuild_rpm
    /\ Len(oldsrc) >= 2
    /\ src # oldsrc

\* the part of the log written by install_step
InstallLog ==
    LET starts == {i \in 1..Len(log) : log[i].op = "change_dir"}
    IN  IF starts = {} THEN <<>>
        ELSE SubSeq(log, CHOOSE i \in starts : TRUE, Len(log))

\* the options the claim asks of the 'rpm -i' of one RPM
C8_FlagsOk(flags) ==
    /\ "--nodeps" \in flags
    /\ ("--relocate /=" \o INSTALLDIR) \in flags
    /\ ("--nopre" \in flags) <=> ~rpm_cfg.preinstall
    /\ ("--nopost" \in flags) <=> ~rpm_cfg.postinstall
    /\ ("--force" \in flags) <=> rpm_cfg.force
    /\ IF rebuild_rpm
       THEN /\ ("--dbpath " \o INSTALLDIR \o "/rpm") \in flags
            /\ "--ignorearch" \in flags
            /\ ("--root " \o INSTALLDIR) \notin flags
       ELSE /\ "--dbpath /rpm" \in flags
            /\ ("--root " \o INSTALLDIR) \in flags

\* the makesymlinks patterns that have a match, in order
C8_Matched == Where(rpm_cfg.makesymlinks, LAMBDA p : SymlinkGlob(p) # <<>>)

\* C8: Rpm.install_step runs 'rpm --initdb' before the first 'rpm -i', then
\* exactly one 'rpm -i' per entry of self.src, in list order, with the
\* options the configuration asks for; the symlinks of 'makesymlinks' are
\* made only after all RPMs are installed, one per pattern that has a match,
\* to the first match.
C8_InstallOrder ==
    LET inst == InstallLog
        installs == Where(inst, IsRpmInstall)
        links == Where(inst, IsSymlink)
    IN  /\ \A i \in Positions(inst, IsInitDb), j \in Positions(inst, IsRpmInstall) : i < j
        /\ \A i \in Positions(inst, IsRpmInstall), j \in Positions(inst, IsSymlink) : i < j
        /\ Len(installs) > 0 => Cardinality(Positions(inst, IsInitDb)) = 1
        /\ Len(installs) <= Len(src)
        /\ \A i \in 1..Len(installs) :
              /\ installs[i].arg = src[i].path
              /\ C8_FlagsOk(installs[i].flags)
        /\ rpm_pc = "installed" =>
              /\ Cardinality(Positions(inst, IsInitDb)) = 1
              /\ Len(installs) = Len(src)
              /\ \A i \in 1..Len(installs) : installs[i].exit = 0
              /\ Len(links) = Len(C8_Matched)
              /\ \A i \in 1..Len(links) :
                    /\ links[i].arg = C8_Matched[i]
                    /\ links[i].what = SymlinkGlob(C8_Matched[i])[1]
        /\ rpm_pc # "installed" => links = <<>>

C8_Witness ==
    /\ rpm_pc = "installed"
    /\ Len(src) >= 2
    /\ Len(Where(InstallLog, IsSymlink)) >= 1
    /\ Len(Where(InstallLog, IsSymlink)) < Len(rpm_cfg.makesymlinks)

\* ------------------------------------------------------------------------
\* Claims about IntelBase
\* ------------------------------------------------------------------------
IsLookup(e) == e.op = "find_flexlm_license"
IsShellCmd(e) == e.op = "run_shell_cmd"
IsClassicInstaller(e) == e.op = "run_shell_cmd" /\ e.what = "./install.sh"
IsOneapiInstaller(e) == e.op = "run_shell_cmd" /\ "--action install" \in e.flags
IsSilentCfgWrite(e) == e.op = "write_file" /\ e.what = SILENT_CFG

\* the license specifications the framework retains for this host and easyconfig
C3_Retained == FindFlexlmLicense(intel_sys, intel_cfg.license_file)
\* the retained specifications joined with the path separator, written out
C3_Joined ==
    LET r == C3_Retained.specs
    IN  CASE Len(r) = 1 -> r[1]
          [] Len(r) = 2 -> r[1] \o ":" \o r[2]
          [] OTHER -> Join(":", r)

\* C3: after prepare_step, with a serial number no license lookup was done;
\* otherwise, when a runtime license is required, either at least one
\* specification was retained, license_file is their join with ':', the
\* license environment variable ($INTEL_LICENSE_FILE for specifications from
\* 'license_file') is set to it and, with more than one specification,
\* license_activation is 'exist_lic' and $INTEL_LICENSE_FILE is set to it too,
\* or the step failed with 'No viable license specifications found'.
C3_LicenseResolution ==
    intel_pc \in {"prepared", "prepare_failed"} =>
        /\ Truthy(intel_cfg.serial_number) =>
              /\ Where(log, IsLookup) = <<>>
              /\ raised = NoError
              /\ license_file = "UNKNOWN"
        /\ (~Truthy(intel_cfg.serial_number) /\ requires_runtime_license) =>
              /\ Len(Where(log, IsLookup)) = 1
              /\ \/ /\ raised = NoError
                    /\ Len(C3_Retained.specs) >= 1
                    /\ license_file = C3_Joined
                    /\ license_env_var \in {"INTEL_LICENSE_FILE", "LM_LICENSE_FILE"}
                    /\ environ[license_env_var] = license_file
                    /\ C3_Retained.var = None => license_env_var = "INTEL_LICENSE_FILE"
                    /\ Len(C3_Retained.specs) > 1 =>
                          /\ license_activation = "exist_lic"
                          /\ environ["INTEL_LICENSE_FILE"] = license_file
                 \/ /\ raised = EasyBuildError("No viable license specifications found")
                    /\ C3_Retained.specs = <<>>

C3_Witness ==
    /\ intel_pc = "prepared"
    /\ ~Truthy(intel_cfg.serial_number) /\ requires_runtime_license
    /\ Len(C3_Retained.specs) > 1
    /\ license_env_var = "LM_LICENSE_FILE" \/ C3_Retained.var = None
    /\ intel_cfg.license_activation # "exist_lic"
    /\ license_activation = "exist_lic"

\* install_step_classic has run
C4_ClassicRan ==
    /\ intel_pc \in {"installed", "install_failed"}
    /\ ~LooseVersionGE(intel_cfg.version, <<2021>>)
C4_Written == silent_cfg # NoFile
C4_HasKey(key) == \E i \in 1..Len(silent_cfg) : silent_cfg[i].key = key
C4_HasLine(key, val) == \E i \in 1..Len(silent_cfg) : silent_cfg[i] = [key |-> key, val |-> val]

\* what C4 says of every activation type, and what holds of the code
C4_Common ==
    /\ \A j \in Positions(log, IsClassicInstaller) :
          /\ C4_Written
          /\ \E i \in Positions(log, IsSilentCfgWrite) : i < j
    /\ C4_Written =>
          /\ C4_HasLine("PSET_INSTALL_DIR", INSTALLDIR)
          /\ C4_HasLine("ACCEPT_EULA", "accept")
          /\ C4_HasLine("PSET_MODE", "install")
          /\ C4_HasLine("CONTINUE_WITH_OPTIONAL_ERROR", "yes")
          /\ C4_HasKey("ACTIVATION_TYPE") <=> (Truthy(serial_number) \/ requires_runtime_license)
    /\ (C4_Written /\ Truthy(serial_number)) =>
          /\ C4_HasLine("ACTIVATION_TYPE", "serial_number")
          /\ C4_HasLine("ACTIVATION_SERIAL_NUMBER", serial_number)
    /\ (C4_Written /\ ~Truthy(serial_number) /\ requires_runtime_license) =>
          /\ C4_HasLine("ACTIVATION_TYPE", license_activation)
          /\ C4_HasKey("ACTIVATION_LICENSE_FILE")
                <=> license_activation \in {"exist_lic", "license_file", "license_server"}
          /\ license_activation = "trial_lic" =>
                ~C4_HasKey("ACTIVATION_LICENSE_FILE") /\ ~C4_HasKey("ACTIVATION_SERIAL_NUMBER")

\* the step failed with the build error, silent.cfg unwritten, installer not run
C4_FailedBeforeWrite ==
    /\ ~C4_Written
    /\ Where(log, IsClassicInstaller) = <<>>
    /\ raised.type = "EasyBuildError"
C4_UnknownActivation == EasyBuildError("Unknown type of activation specified")

\* C4 as stated: without a serial number (and with a runtime license
\* required) every activation type other than exist_lic, license_file,
\* license_server and trial_lic fails with the build error before silent.cfg
\* is written.
C4_Original ==
    C4_ClassicRan =>
        /\ C4_Common
        /\ (~Truthy(serial_number) /\ requires_runtime_license
              /\ license_activation \notin {"exist_lic", "license_file", "license_server", "trial_lic"})
           => C4_FailedBeforeWrite

\* C4 (amended): silent.cfg is written before the installer is run and holds
\* the install-dir, EULA, install-mode and continue lines; it holds an
\* activation-type line iff a serial number is set or a runtime license is
\* required; with a serial number the type is 'serial_number' and the serial
\* line is written; without one and with a runtime license required the
\* license-file line is written exactly for exist_lic, license_file and
\* license_server, no license line is written for trial_lic nor for
\* serial_number, and exactly the activation types outside the five known
\* ones fail with the build error before silent.cfg is written and before
\* the installer is run.
C4_SilentCfg ==
    C4_ClassicRan =>
        /\ C4_Common
        /\ (~Truthy(serial_number) /\ requires_runtime_license) =>
              /\ IF license_activation \notin
                        {"exist_lic", "license_file", "license_server", "serial_number", "trial_lic"}
                 THEN C4_FailedBeforeWrite /\ raised = C4_UnknownActivation
                 ELSE raised # C4_UnknownActivation
              /\ (C4_Written /\ license_activation = "serial_number") =>
                    ~C4_HasKey("ACTIVATION_LICENSE_FILE") /\ ~C4_HasKey("ACTIVATION_SERIAL_NUMBER")

C4_Witness ==
    /\ C4_ClassicRan
    /\ intel_pc = "installed"
    /\ ~Truthy(serial_number) /\ requires_runtime_license
    /\ license_activation = "serial_number"
    /\ C4_Written

\* C5: install_step runs the oneAPI installer for versions 2021 and newer and
\* the classic one otherwise, never both and at most one command, exactly
\* one when the step succeeds; on the oneAPI path, unless exactly one source
\* file is present, the step fails with the build error and runs no command.
C5_InstallerChoice ==
    intel_pc \in {"installed", "install_failed", "cleaned"} =>
        LET oneapi == intel_cfg.version[1] >= 2021
            classicCmds == Where(log, IsClassicInstaller)
            oneapiCmds == Where(log, IsOneapiInstaller)
        IN  /\ oneapi => classicCmds = <<>> /\ silent_cfg = NoFile
            /\ ~oneapi => oneapiCmds = <<>>
            /\ Len(classicCmds) + Len(oneapiCmds) <= 1
            /\ Len(Where(log, IsShellCmd)) = Len(classicCmds) + Len(oneapiCmds)
            /\ intel_pc \in {"installed", "cleaned"} =>
                  /\ Len(classicCmds) + Len(oneapiCmds) = 1
                  /\ \A i \in 1..Len(oneapiCmds) :
                        /\ oneapiCmds[i].what = "./" \o intel_cfg.src[1]
                        /\ {"-a", "--action install", "--silent", "--eula accept",
                            "--install-dir " \o INSTALLDIR} \subseteq oneapiCmds[i].flags
                  /\ \A i \in 1..Len(classicCmds) : ("-s " \o SILENT_CFG) \in classicCmds[i].flags
            /\ (oneapi /\ Len(intel_cfg.src) # 1) =>
                  /\ intel_pc = "install_failed"
                  /\ raised.type = "EasyBuildError"
                  /\ Where(log, IsShellCmd) = <<>>

C5_Witness ==
    /\ intel_pc = "installed"
    /\ intel_cfg.version[1] >= 2021
    /\ Len(Where(log, IsOneapiInstaller)) = 1
    /\ Len(intel_cfg.src) = 1

\* ------------------------------------------------------------------------
\* C6: when IntelBase installs of the same user run at the same time, the
\* cache contents that a running installer is using are never removed by
\* another install's clean_home_subdir: while the installer of an install
\* runs, what it cached in $HOME/intel is still there.
\* ------------------------------------------------------------------------
C6_CacheKept ==
    \A p \in Installs : par_pc[p] = "installing" => p \in par_fs.cache[par_node[p]]

\* the same for installs that all run on nodes of their own
C6_OwnNodes == \A p, q \in Installs : p # q => par_node[p] # par_node[q]
C6_CacheKeptOnOwnNodes == C6_OwnNodes => C6_CacheKept

\* ------------------------------------------------------------------------
\* C9: EB_Maple.install_step runs the installer, with its question/answer
\* pairs, only when exactly one 'Maple*Installer*' file is in the build
\* directory; with none or several the step ends in the build error and no
\* command was run. A 'Maple*Upgrade*' installer is run only after the main
\* installer has completed (exit code 0) and only when exactly one is found;
\* with none the step is done after the main installer, with several it
\* ends in the build error.
\* ------------------------------------------------------------------------
C9_Main == {f \in maple_builddir : f[1] = "Maple" /\ \E i \in 2..Len(f) : f[i] = "Installer"}
C9_Upgrades == {f \in maple_builddir : f[1] = "Maple" /\ \E i \in 2..Len(f) : f[i] = "Upgrade"}
C9_IsMainRun(e) == e.op = "run_shell_cmd" /\ "qa_wait_patterns" \in e.flags
C9_IsUpgradeRun(e) == e.op = "run_shell_cmd" /\ e.flags = {"qa_patterns"}

C9_InstallStep ==
    maple_pc # "init" =>
        /\ \A i \in 1..Len(log) : C9_IsMainRun(log[i]) \/ C9_IsUpgradeRun(log[i])
        /\ IF Cardinality(C9_Main) # 1
           THEN /\ log = <<>>
                /\ raised.type = "EasyBuildError"
                /\ maple_pc = "install_failed"
           ELSE /\ Len(log) \in {1, 2}
                /\ C9_IsMainRun(log[1])
                /\ log[1].what \in C9_Main
                /\ log[1].arg.installdir = INSTALLDIR
                /\ log[1].arg.license_server = maple_cfg.license_server
                /\ Len(log) = 2 <=>
                    (log[1].exit = 0 /\ Cardinality(C9_Upgrades) = 1)
                /\ Len(log) = 2 =>
                    /\ C9_IsUpgradeRun(log[2])
                    /\ log[2].what \in C9_Upgrades
                    /\ (raised = NoError) <=> (log[2].exit = 0)
                /\ (Len(log) = 1 /\ log[1].exit = 0 /\ C9_Upgrades = {}) =>
                    (raised = NoError /\ maple_pc = "installed")
                /\ (log[1].exit = 0 /\ Cardinality(C9_Upgrades) > 1) =>
                    raised = EasyBuildError("Found multiple upgrade installers")
                /\ log[1].exit # 0 => raised = CmdFailed

\* a single file matches both patterns: it is run as the installer and then
\* as the upgrade installer
C9_Witness ==
    /\ maple_pc = "installed"
    /\ Len(log) = 2
    /\ Cardinality(C9_Main) = 1
    /\ C9_IsUpgradeRun(log[2])

\* ------------------------------------------------------------------------
\* C10: a sanity_check_step that gets through its cleansing leaves none of
\* _LMFILES_, LOADEDMODULES, MODULES_LMCONFLICT, __MODULES_LMCONFLICT and no
\* EASYBUILD_* variable in initial_environ; after any sequence of steps a
\* make_module_step(fake=False) that returns leaves initial_environ equal to
\* real_initial_environ, a make_module_step(fake=True) leaves initial_environ
\* as it was, and no step modifies real_initial_environ.
\* ------------------------------------------------------------------------
C10_Cleansed(env) ==
    \A k \in DOMAIN env :
        /\ k \notin {<<"_LMFILES_">>, <<"LOADEDMODULES">>, <<"MODULES_LMCONFLICT">>,
                     <<"__MODULES_LMCONFLICT">>}
        /\ k[1] # "EASYBUILD_"
C10_Did(e) == log' = Append(log, e)

C10_EnvironRestored ==
    [][/\ real_initial_environ' = real_initial_environ
       /\ ((C10_Did(StepEvent("sanity_check_step", FALSE, 0))
              \/ (C10_Did(StepEvent("sanity_check_step", FALSE, 1)) /\ raised' = SanityCheckFailed))
            => C10_Cleansed(initial_environ'))
       /\ (C10_Did(StepEvent("make_module_step", FALSE, 0))
            => initial_environ' = real_initial_environ)
       /\ (\E exit \in ExitCodes : C10_Did(StepEvent("make_module_step", TRUE, exit)))
            => initial_environ' = initial_environ
      ]_vars

\* the environment was cleansed of variables of both kinds, the fake module
\* was made without it being restored, and the real module restored it
C10_Witness ==
    /\ Len(log) = 3
    /\ log[1] = StepEvent("sanity_check_step", FALSE, 0)
    /\ log[2] = StepEvent("make_module_step", TRUE, 0)
    /\ log[3] = StepEvent("make_module_step", FALSE, 0)
    /\ <<"LOADEDMODULES">> \in DOMAIN real_initial_environ
    /\ <<"EASYBUILD_", "PREFIX">> \in DOMAIN real_initial_environ
    /\ initial_environ = real_initial_environ

\* ------------------------------------------------------------------------
\* C1: every failure a step of an adapter can end in is the build error
\* (EasyBuildError), never another error type.
\* ------------------------------------------------------------------------
C1_OnlyBuildErrors == raised.type \in {"None", "EasyBuildError"}

\* ------------------------------------------------------------------------
\* C2: a failed shell command is never retried and nothing is run after it.
\* Run with the default fail_on_error it is fatal: it is the last thing the
\* step did and the step ended in the build error. Two commands are run with
\* fail_on_error=False: after 'hadoop checknative -a' the step only cleans
\* up the fake module and ends in the build error exactly when an extra
\* native library is not reported; after a test run of WRF the step only
\* reads rsl.error.0000 and ends in the build error.
\* ------------------------------------------------------------------------
C2_Failed == {i \in 1..Len(log) : IsShellCmd(log[i]) /\ log[i].exit # 0}
C2_Tolerant(e) == "fail_on_error=False" \in e.flags
C2_LibMissing ==
    \E k \in 1..Len(hadoop_cfg.extra_native_libs) :
        hadoop_cfg.extra_native_libs[k].name \notin hadoop_sys.checknative_true

\* the claim as stated: the failed command is fatal and nothing is done
\* after it (reading the output of the command is not counted as an action)
C2_Original ==
    \A i \in C2_Failed :
        /\ raised.type = "EasyBuildError"
        /\ \A j \in (i+1)..Len(log) : log[j].op = "read_file"

C2_FailedCommands ==
    \A i \in C2_Failed :
        /\ \A j \in (i+1)..Len(log) : ~IsShellCmd(log[j])
        /\ IF ~C2_Tolerant(log[i])
           THEN i = Len(log) /\ raised = CmdFailed
           ELSE IF log[i].what = "hadoop"
           THEN /\ Len(log) = i + 1
                /\ log[i+1].op = "clean_up_fake_module"
                /\ raised.type \in {"None", "EasyBuildError"}
                /\ (raised.type = "EasyBuildError") <=> C2_LibMissing
           ELSE /\ raised = EasyBuildError("Test failed with exit code")
                /\ Len(log) <= i + 1
                /\ \A j \in (i+1)..Len(log) : log[j].op = "read_file"

\* 'hadoop checknative -a' failed and the sanity check of Hadoop succeeded
C2_Witness ==
    /\ hadoop_pc = "sanity_checked"
    /\ raised = NoError
    /\ \E i \in C2_Failed : log[i].what = "hadoop"

\* ------------------------------------------------------------------------
\* C11: installation steps run one after another and synchronously; the two
\* install entry points of EB_Rmpi, the synchronous and the asynchronous
\* one, prepare the same configure arguments before they delegate to the
\* framework: whichever entry point ran, the framework's entry point of the
\* same name is called once, after the preparation, with the configure
\* arguments that the version and the toolchain determine, and it is not
\* called when the preparation failed.
\* ------------------------------------------------------------------------
C11_Type ==
    IF rmpi_cfg.toolchain.mpi_family = "IntelMPI"
          /\ rmpi_cfg.version \in {<<0, 6, "-", 4>>, <<0, 6, "-", 9>>, <<0, 7, "-", 1>>}
    THEN "INTELMPI"
    ELSE IF rmpi_cfg.toolchain.MPI_TYPE = "MPI_TYPE_OPENMPI" THEN "OPENMPI" ELSE "MPICH"
C11_Args ==
    <<"--with-Rmpi-include=" \o rmpi_cfg.toolchain.MPI_INC_DIR,
      "--with-Rmpi-libpath=" \o rmpi_cfg.toolchain.MPI_LIB_DIR,
      "--with-mpi=" \o rmpi_cfg.toolchain.mpi_root,
      "--with-Rmpi-type=" \o C11_Type>>

C12_Pkgs ==
    LET v == ebm_cfg.version
        three == <<EB_FRAMEWORK, EB_EASYBLOCKS, EB_EASYCONFIGS>>
    IN  IF LooseVersionGE(v, <<2, 0>>) /\ ~LooseVersionLess(<<3, 999>>, v)
        THEN <<SETUPTOOLS, VSC_INSTALL, VSC_BASE, EB_FRAMEWORK, EB_EASYBLOCKS,
               EB_EASYCONFIGS, VSC_BASE, VSC_INSTALL>>
        ELSE IF LooseVersionGE(v, <<5, 0>>) /\ EasybuildPkgName(v) \in Range(ebm_cfg.sources)
        THEN three \o <<EB_BASE>>
        ELSE three

\* the number of directories whose name starts with the package's name
C12_Matches(pkg) ==
    Cardinality({x \in ebm_cfg.subdirs :
                    \/ StartsWith(x, pkg)
                    \/ StartsWith(x, PkgNorm(pkg))})

\* the position of the first required package without a single match
\* (one past the end when there is none)
C12_Stop ==
    LET bad == {i \in 1..Len(C12_Pkgs) :
                   C12_Matches(C12_Pkgs[i]) # 1 /\ C12_Pkgs[i] \notin {SETUPTOOLS, VSC_BASE, VSC_INSTALL}}
    IN  IF bad = {} THEN Len(C12_Pkgs) + 1
        ELSE CHOOSE i \in bad : \A j \in bad : i <= j

C12_IsInstall(e) == e.op = "super" /\ e.what = "install_step"
C12_IsEgg(e) == e.op = "write_file"

\* the packages installed so far, in the order of their installation
C12_Installed ==
    LET es == SelectSeq(log, C12_IsInstall)
    IN  [i \in 1..Len(es) |-> es[i].arg]

\* the packages up to position n that have exactly one matching directory
C12_Selected(n) ==
    LET IsOne(pkg) == C12_Matches(pkg) = 1
    IN  SelectSeq(SubSeq(C12_Pkgs, 1, n), IsOne)

C12_InstallStep ==
    ebm_pc \in {"installed", "install_failed"} =>
        /\ \* no failure: every package with a single match, in order
           raised = NoError =>
               /\ C12_Stop = Len(C12_Pkgs) + 1
               /\ C12_Installed = C12_Selected(Len(C12_Pkgs))
        /\ \* a required package is missing: only the packages before it
           raised = EasyBuildError("Failed to find required EasyBuild package") =>
               /\ C12_Stop <= Len(C12_Pkgs)
               /\ C12_Installed = C12_Selected(C12_Stop - 1)
        /\ \* an installation failed: the packages up to the failing one
           raised = CmdFailed =>
               /\ C12_Installed # <<>>
               /\ log[Len(log)].exit # 0
               /\ \E n \in 1..(C12_Stop - 1) : C12_Installed = C12_Selected(n)
        /\ raised \in {NoError, CmdFailed,
                       EasyBuildError("Failed to find required EasyBuild package")}
        /\ \* the egg-info file
           LET written == \E i \in 1..Len(log) : C12_IsEgg(log[i])
           IN  /\ written <=> (raised = NoError /\ EasybuildPkgName(ebm_cfg.version) \notin Range(ebm_cfg.sources))
               /\ written => C12_IsEgg(log[Len(log)]) /\ EggInfo(ebm_cfg.version) \in ebm_fs
               /\ ~written => ebm_fs = {}
               /\ \A i \in 1..Len(log) : C12_IsEgg(log[i]) => i = Len(log)

\* an EasyBuild 3.x installation in which setuptools is skipped, vsc-base is
\* installed twice and the egg-info file is written
C12_Witness ==
    /\ ebm_pc = "installed"
    /\ ebm_cfg.version = <<3, 3, 1>>
    /\ C12_Installed = <<VSC_BASE, EB_FRAMEWORK, EB_EASYBLOCKS, EB_EASYCONFIGS, VSC_BASE>>
    /\ EggInfo(ebm_cfg.version) \in ebm_fs

\* ------------------------------------------------------------------------
\* C13: whatever $HOME/intel and the local cache directory are at the start,
\* after setup_local_home_subdir the local cache directory exists and
\* $HOME/intel is a symlink to it; a directory or a symlink to another
\* directory found at $HOME/intel has been moved into a backup directory,
\* the right symlink has been left alone, and a dangling symlink has been
\* removed and replaced (nothing is backed up then).
\* ------------------------------------------------------------------------
C13_SetUp ==
    intel_pc \in {"configured", "configure_failed", "installed", "install_failed", "cleaned"}

C13_Linked == fs.local /\ fs.home = "link_local" /\ HomeExists(fs) /\ HomeSameAsLocal(fs)

\* the statement as the specification has it: every $HOME/intel found that
\* is not the right symlink is in a backup directory afterwards
C13_Original ==
    C13_SetUp =>
        /\ C13_Linked
        /\ intel_sys.home \in {"dir", "link_other", "dangling"} => fs.backups = <<intel_sys.home>>
        /\ intel_sys.home \in {"absent", "link_local"} => fs.backups = <<>>

C13_HomeSubdir ==
    C13_SetUp =>
        /\ C13_Linked
        /\ intel_sys.home \in {"dir", "link_other"} => fs.backups = <<intel_sys.home>>
        /\ intel_sys.home \in {"absent", "link_local", "dangling"} => fs.backups = <<>>

\* a symlink to another directory was found and moved out of the way while
\* the local cache directory did not exist yet
C13_Witness ==
    /\ C13_SetUp
    /\ intel_sys.home = "link_other" /\ ~intel_sys.local
    /\ fs.backups = <<"link_other">>

\* ------------------------------------------------------------------------
\* C14: parse_components_list takes ALL or DEFAULTS only as the single entry
\* of 'components' and fails with the build error otherwise; for regular
\* expressions install_components holds the available components that one of
\* them matches from the start; install_step_classic writes COMPONENTS=ALL or
\* COMPONENTS=DEFAULTS unquoted, a ';'-joined list unquoted from version 2017
\* on and double-quoted before, and fails with 'Empty list of matching
\* components' when components were given and none matched.
\* ------------------------------------------------------------------------
C14_Given == ~intel_cfg.components.none /\ intel_cfg.components.list # <<>>
C14_Special ==
    \E i \in 1..Len(intel_cfg.components.list) :
        intel_cfg.components.list[i] \in {"ALL", "DEFAULTS"}
\* the available components that at least one regular expression matches
C14_Matching ==
    {comp \in Range(AvailableComponents) :
        \E i \in 1..Len(intel_cfg.components.list) : ReMatch(intel_cfg.components.list[i], comp)}

C14_Parsed ==
    (C13_SetUp /\ C14_Given /\ intel_sys.mediaconfig) =>
        IF C14_Special
        THEN IF Len(intel_cfg.components.list) = 1
             THEN intel_pc # "configure_failed" /\ install_components = intel_cfg.components
             ELSE /\ intel_pc = "configure_failed"
                  /\ raised = EasyBuildError("If you specify ALL or DEFAULTS as components, you cannot specify anything else")
                  /\ silent_cfg = NoFile
                  /\ Positions(log, IsClassicInstaller) = {}
        ELSE /\ intel_pc # "configure_failed"
             /\ ~install_components.none
             /\ Range(install_components.list) = C14_Matching

C14_Quoted(s) == "\"" \o s \o "\""

C14_Written ==
    (C4_ClassicRan /\ ~install_components.none) =>
        IF install_components.list = <<>>
        THEN /\ intel_pc = "install_failed"
             /\ raised = EasyBuildError("Empty list of matching components obtained")
             /\ silent_cfg = NoFile
             /\ Positions(log, IsClassicInstaller) = {}
        ELSE silent_cfg # NoFile =>
               LET joined == Join(";", install_components.list)
               IN  C4_HasLine("COMPONENTS",
                       IF install_components.list \in {<<"ALL">>, <<"DEFAULTS">>}
                       THEN install_components.list[1]
                       ELSE IF intel_cfg.version[1] >= 2017 THEN joined ELSE C14_Quoted(joined))

C15_Xs == {"CFLAGS", "CPPFLAGS", "CXXFLAGS", "FCFLAGS", "FFLAGS", "LDFLAGS", "LIBS"}
C15_Entry == mpich_sys.environ
C15_IsSet(x) == C15_Entry[x] \notin {Unset, ""}
C15_Conflict(x) ==
    /\ C15_IsSet(x)
    /\ C15_Entry["MPICHLIB_" \o x] # Unset
    /\ C15_Entry["MPICHLIB_" \o x] # C15_Entry[x]

C15_Succeeded ==
    \/ mpich_pc \in {"configured", "built", "build_failed"}
    \/ mpich_pc = "configure_failed" /\ raised = CmdFailed

C15_BuildEnv ==
    /\ mpich_pc # "init" =>
          (C15_Succeeded <=> \A x \in C15_Xs : ~C15_Conflict(x))
    /\ mpich_pc = "configure_failed" /\ raised # CmdFailed =>
          /\ raised.type = "EasyBuildError"
          /\ \A i \in 1..Len(log) : log[i].op # "run_shell_cmd"
    /\ C15_Succeeded =>
          /\ mpich_environ["F90"] = Unset
          /\ mpich_environ["F90FLAGS"] = Unset
          /\ \A x \in C15_Xs :
                IF C15_IsSet(x)
                THEN /\ mpich_environ[x] = Unset
                     /\ mpich_environ["MPICHLIB_" \o x] = C15_Entry[x]
                ELSE /\ mpich_environ[x] = C15_Entry[x]
                     /\ mpich_environ["MPICHLIB_" \o x] = C15_Entry["MPICHLIB_" \o x]

\* CFLAGS moved to an undefined MPICHLIB_CFLAGS, LIBS equal to MPICHLIB_LIBS,
\* and an empty variable left alone next to its MPICHLIB_ variable
C15_Witness ==
    /\ mpich_pc = "configured"
    /\ C15_Entry["CFLAGS"] = "-O2" /\ C15_Entry["MPICHLIB_CFLAGS"] = Unset
    /\ C15_Entry["LIBS"] = "-O2" /\ C15_Entry["MPICHLIB_LIBS"] = "-O2"
    /\ C15_Entry["F90"] = "gfortran"
    /\ mpich_environ["MPICHLIB_CFLAGS"] = "-O2" /\ mpich_environ["CFLAGS"] = Unset

\* ------------------------------------------------------------------------
\* C16: EB_MCR.set_subdir does nothing once self.subdir is set; the first
\* call sets it to the name of the single matching version directory or,
\* when there is not exactly one, to the list of matches; sanity_check_step
\* fails with 'Could not identify which subdirectory to pick' whenever
\* self.subdir is not a single name then, and make_module_extra puts
\* 'NOTFOUND' in its place without failing.
\* ------------------------------------------------------------------------
C16_IsVersionDir(d) ==
    IF mcr_cfg.version[2] < 2022 \/ (mcr_cfg.version[2] = 2022 /\ mcr_cfg.version[3] < 98)
    THEN Len(d) >= 3 /\ d[1] = "v" /\ \A i \in 2..3 : d[i] \in Digits
    ELSE Len(d) >= 5 /\ d[1] = "R" /\ \A i \in 2..5 : d[i] \in Digits
C16_VersionDirs == {d \in mcr_sys.listing : C16_IsVersionDir(d)}
C16_Single == Cardinality(C16_VersionDirs) = 1

C16_Called(method) == mcr_calls' = Append(mcr_calls, method)
C16_NotIdentified == EasyBuildError("Could not identify which subdirectory to pick")

C17_Suffix == IF mumps_cfg.usempi = "True" THEN "PAR" ELSE "SEQ"
C17_Opt(key) ==
    LET i == CHOOSE i \in 1..Len(mumps_buildopts) : mumps_buildopts[i].key = key
    IN  mumps_buildopts[i].val
C17_Done == mumps_pc \notin {"unused", "init"}

\* all of C17 but the choice between the two templates for GCC
C17_Rest ==
    C17_Done =>
        /\ mumps_cfg.comp_family = INTELCOMP /\ mumps_makefile # "" =>
               mumps_makefile = "Makefile.INTEL." \o C17_Suffix
        /\ mumps_cfg.comp_family \notin {INTELCOMP, GCC} =>
               /\ mumps_pc = "configure_failed" /\ raised.type = "EasyBuildError"
               /\ mumps_makefile = "" /\ mumps_buildopts = <<>>
        /\ (~mumps_cfg.scotch \/ (~mumps_cfg.parmetis /\ ~mumps_cfg.metis)) =>
               /\ mumps_pc = "configure_failed" /\ raised.type = "EasyBuildError"
               /\ mumps_buildopts = <<>>
        /\ mumps_pc # "configure_failed" =>
               /\ mumps_makefile # ""
               /\ Len(mumps_buildopts) = 20
               /\ C17_Opt("LMETISDIR") = IF mumps_cfg.parmetis THEN "$EBROOTPARMETIS" ELSE "$EBROOTMETIS"
               /\ C17_Opt("ORDERINGSF") \in
                     IF mumps_cfg.parmetis THEN {"-Dpord -Dptscotch -Dparmetis", "-Dpord -Dscotch -Dparmetis"}
                     ELSE {"-Dpord -Dptscotch -Dmetis", "-Dpord -Dscotch -Dmetis"}
               /\ IF C17_Suffix = "SEQ"
                  THEN /\ C17_Opt("CC") = "$CC" /\ C17_Opt("FC") = "$F77" /\ C17_Opt("FL") = "$F77"
                       /\ C17_Opt("SCALAP") = "" /\ C17_Opt("LIBPAR") = ""
                  ELSE /\ C17_Opt("CC") = "$MPICC" /\ C17_Opt("FC") = "$MPIF77" /\ C17_Opt("FL") = "$MPIF77"
                       /\ C17_Opt("SCALAP") # "" /\ C17_Opt("LIBPAR") # ""

\* the statement read with the version of GCC
C17_Original ==
    /\ C17_Rest
    /\ (C17_Done /\ mumps_cfg.comp_family = GCC /\ mumps_makefile # "") =>
           mumps_makefile = (IF mumps_cfg.comp_version[1] >= 5 THEN "Makefile.debian." ELSE "Makefile.gfortran.")
                                \o C17_Suffix

C17_Template ==
    /\ C17_Rest
    /\ (C17_Done /\ mumps_cfg.comp_family = GCC /\ mumps_makefile # "") =>
           mumps_makefile = (IF mumps_cfg.version[1] >= 5 THEN "Makefile.debian." ELSE "Makefile.gfortran.")
                                \o C17_Suffix

\* MUMPS 4.10.0 configured with GCC 12.3.0, sequential, ParMETIS and METIS
C17_Witness ==
    /\ mumps_pc = "configured"
    /\ mumps_cfg.comp_family = GCC /\ mumps_cfg.comp_version = <<12, 3, 0>>
    /\ mumps_cfg.version = <<4, 10, 0>>
    /\ mumps_cfg.usempi = "None" /\ mumps_cfg.parmetis /\ mumps_cfg.metis
    /\ mumps_makefile = "Makefile.gfortran.SEQ"
    /\ C17_Opt("LMETIS") = "-L$EBROOTPARMETIS -lparmetis -lmetis"

\* ------------------------------------------------------------------------
\* C18: EB_MXNet.configure_step sets USE_BLAS from the BLAS library of the
\* toolchain: imkl gives mkl (with MKLML_ROOT, and USE_MKL2017=1 from imkl 17
\* on), ACML and ATLAS give atlas, OpenBLAS gives openblas, FlexiBLAS gives
\* flexiblas (and -lflexiblas is appended to $CFLAGS); a toolchain without a
\* BLAS library fails with the build error 'No BLAS library found in the
\* toolchain'; for every toolchain the step fails with the build error or
\* adds exactly one USE_BLAS option.
\* ------------------------------------------------------------------------
C18_Done == mxnet_pc \notin {"unused", "init"}
C18_Opts(key) == {i \in 1..Len(mxnet_buildopts) : mxnet_buildopts[i].key = key}
C18_HasOpt(key, val) == \E i \in 1..Len(mxnet_buildopts) : mxnet_buildopts[i] = [key |-> key, val |-> val]
C18_Toolchain ==
    IF mxnet_cfg.blas.kind = "list" /\ mxnet_cfg.blas.list # <<>> THEN mxnet_cfg.blas.list[1] ELSE "<none>"
C18_ConfigureFailed == mxnet_pc = "configure_failed"

\* the BLAS libraries that the step knows
C18_Known ==
    C18_Done =>
        /\ C18_Toolchain = "imkl" =>
              /\ C18_HasOpt("USE_BLAS", "mkl")
              /\ C18_Opts("MKLML_ROOT") # {}
              /\ (C18_Opts("USE_MKL2017") # {}) <=> (mxnet_cfg.imkl_version[1] >= 17)
        /\ C18_Toolchain \in {"ACML", "ATLAS"} => C18_HasOpt("USE_BLAS", "atlas")
        /\ C18_Toolchain = "OpenBLAS" => C18_HasOpt("USE_BLAS", "openblas")
        /\ C18_Toolchain = "FlexiBLAS" =>
              /\ C18_HasOpt("USE_BLAS", "flexiblas")
              /\ mxnet_environ["CFLAGS"] \in {"-O2 -lflexiblas", "None -lflexiblas"}
        /\ C18_Toolchain # "FlexiBLAS" => mxnet_environ["CFLAGS"] \in {Unset, "-O2"}

C18_UseBlas ==
    /\ C18_Known
    /\ C18_Done =>
          /\ \* no BLAS library in the toolchain
             mxnet_cfg.blas.kind \in {"missing", "None"} =>
                 /\ C18_ConfigureFailed
                 /\ raised = EasyBuildError("No BLAS library found in the toolchain")
          /\ \* every toolchain: the build error, or one USE_BLAS option
             \/ C18_ConfigureFailed /\ raised.type = "EasyBuildError"
             \/ ~C18_ConfigureFailed /\ Cardinality(C18_Opts("USE_BLAS")) = 1

====
